---- MODULE Spec2Model ----
(***************************************************************************)
(* Model of the hybrid inference core of the sports betting expert system: *)
(* the rule engine (rules_engine.py), the Bayesian network                 *)
(* (bayesian_model.py), the fact builders (knowledge_model.py) and the     *)
(* application that combines them (main.py).                               *)
(*                                                                         *)
(* Numbers.  Python floats are modelled in fixed point:                    *)
(*   - strengths, ratings, rates and goal averages in thousandths          *)
(*     (0.59 is 590, a threshold of 2.5 goals is 2500);                    *)
(*   - probabilities in units of 1e-5 (0.75 is 75000, 1.0 is One).         *)
(* Strings built with f-strings are built here with \o and ToString.       *)
(***************************************************************************)
EXTENDS Integers, Sequences, FiniteSets, TLC

VARIABLES
    rules_recommendations,  \* argument of _combine_recommendations
    bayesian_results,       \* argument of _combine_recommendations
    hybrid_results,         \* value returned by _combine_recommendations
    combine_pc,             \* "idle" | "ready" | "done"
    evidence,               \* argument of BettingBayesianNetwork.predict
    failing,                \* leaf variables whose inference.query raises
    recommendations,        \* the dict predict builds and returns
    predict_pc,             \* "idle" | "ready" | "returned" | "raised"
    expert_system,          \* the BettingExpertSystem instance
    last_call,              \* the last call made on the engine, by its user
    team_facts_cache,       \* BettingExpertApp.team_facts_cache
    results,                \* the dicts analyze_matchup_hybrid has returned, in order
    threads,                \* the analyses in progress on the shared application
    context,                \* BettingExpertApp.context, the state of the conversation
    call,                   \* a function of the core about to be applied: its name and arguments
    returned                \* what the function applied last returned or raised

combineVars == <<rules_recommendations, bayesian_results, hybrid_results, combine_pc>>

predictVars == <<evidence, failing, recommendations, predict_pc>>

engineVars == <<expert_system, last_call>>

appVars == <<team_facts_cache, results, threads, context>>

callVars == <<call, returned>>

vars == <<combineVars, predictVars, engineVars, appVars, callVars>>

EmptyDict == [k \in {} |-> k]

\* the values of the variables of a component that a specification does not use
CombineIdle ==
    /\ rules_recommendations = <<>>
    /\ bayesian_results = EmptyDict
    /\ hybrid_results = EmptyDict
    /\ combine_pc = "idle"

PredictIdle ==
    /\ evidence = EmptyDict
    /\ failing = {}
    /\ recommendations = EmptyDict
    /\ predict_pc = "idle"

NotReturned == [kind |-> "NotReturned"]

CallIdle ==
    /\ call = [op |-> "none"]
    /\ returned = NotReturned

----------------------------------------------------------------------------
(* Bounds of the model *)

\* longest list of rule recommendations handed to the combiner
MaxRecs == 2

----------------------------------------------------------------------------
(* Fixed point *)

One == 100000

Half == 50000

bet_types == <<"home_win", "away_win", "draw", "over", "under">>

BetTypeSet == {bet_types[i] : i \in 1..Len(bet_types)}

\* f"{x:.1%}" of a probability x: the percentage with one decimal, rounded
\* to nearest (a tie goes to the even digit), then printed.
PctTenths(x) ==
    LET q == x \div 100
        r == x % 100
    IN  IF r > 50 \/ (r = 50 /\ q % 2 = 1) THEN q + 1 ELSE q

PctText(tenths) == ToString(tenths \div 10) \o "." \o ToString(tenths % 10) \o "%"

FormatPct1(x) == PctText(PctTenths(x))

----------------------------------------------------------------------------
(* main.py: BettingExpertApp._combine_recommendations *)

\* next((r for r in rules_recommendations if r['bet_type'] == bet_type), None):
\* the index of the first match, 0 for None.
RECURSIVE FirstFrom(_, _, _)
FirstFrom(recs, bet_type, i) ==
    IF i > Len(recs) THEN 0
    ELSE IF recs[i].bet_type = bet_type THEN i
    ELSE FirstFrom(recs, bet_type, i + 1)

RECURSIVE LastFrom(_, _, _)
LastFrom(recs, bet_type, i) ==
    IF i < 1 THEN 0
    ELSE IF recs[i].bet_type = bet_type THEN i
    ELSE LastFrom(recs, bet_type, i - 1)

LastRulesRec(recs, bet_type) == LastFrom(recs, bet_type, Len(recs))

FirstRulesRec(recs, bet_type) == FirstFrom(recs, bet_type, 1)

\* bayesian_rec.get('recommended', 0) > 0.5
bayesian_recommend(bayesian_rec) == bayesian_rec.recommended > Half

AgreeProbabilityUnweighted(rules_rec, bayesian_rec) ==
    (rules_rec.probability + bayesian_rec.recommended) \div 2

\* 0.6 * rules_prob + 0.4 * bayes_prob
AgreeProbability(rules_rec, bayesian_rec) ==
    (6 * rules_rec.probability + 4 * bayesian_rec.recommended) \div 10

HybridBase(bet_type, home_team, away_team) ==
    [bet_type |-> bet_type, home_team |-> home_team, away_team |-> away_team]

\* CASO 1, both agree (main.py 295-305)
HybridAgree(base, rules_rec, bayesian_rec) ==
    base @@
    [recommendation |-> IF rules_rec.recommendation = "recommended"
                        THEN "recommended" ELSE "not_recommended",
     probability    |-> AgreeProbability(rules_rec, bayesian_rec),
     confidence     |-> rules_rec.confidence,
     explanation    |-> rules_rec.explanation,
     concordance    |-> "high",
     rules_fired    |-> rules_rec.rules_fired]

NotePrefix == "\n[Nota: La red bayesiana sugiere lo contrario con "

DisagreeKeepsConfidence(rules_rec) == rules_rec.confidence

\* hybrid_rec['confidence'] = 'medium' (main.py 310)
DisagreeConfidence(rules_rec) == "medium"

\* CASO 1, the two disagree (main.py 306-314)
HybridDisagree(base, rules_rec, bayesian_rec) ==
    base @@
    [recommendation |-> rules_rec.recommendation,
     probability    |-> rules_rec.probability,
     confidence     |-> DisagreeConfidence(rules_rec),
     explanation    |-> rules_rec.explanation \o NotePrefix
                          \o FormatPct1(bayesian_rec.recommended) \o "]",
     concordance    |-> "low",
     rules_fired    |-> rules_rec.rules_fired]

\* CASO 2 (main.py 317-323)
HybridRulesOnly(base, rules_rec) ==
    base @@
    [recommendation |-> rules_rec.recommendation,
     probability    |-> rules_rec.probability,
     confidence     |-> rules_rec.confidence,
     explanation    |-> rules_rec.explanation,
     source         |-> "rules_only",
     rules_fired    |-> rules_rec.rules_fired]

BayesOnlyProbabilityRaw(prob_rec) == prob_rec

\* prob_rec if prob_rec > 0.5 else (1 - prob_rec)
BayesOnlyProbability(prob_rec) ==
    IF prob_rec > Half THEN prob_rec ELSE One - prob_rec

\* CASO 3 (main.py 326-341)
HybridBayesOnly(base, bayesian_rec) ==
    LET prob_rec    == bayesian_rec.recommended
        probability == BayesOnlyProbability(prob_rec)
        confidence  == IF probability > 70000 THEN "high"
                       ELSE IF probability > 60000 THEN "medium"
                       ELSE "low"
    IN  base @@
        [recommendation |-> IF prob_rec > Half THEN "recommended"
                            ELSE "not_recommended",
         probability    |-> probability,
         confidence     |-> confidence,
         explanation    |-> "Segun analisis probabilistico ("
                              \o FormatPct1(probability) \o ")",
         source         |-> "bayesian_only"]

HybridNoneSkipped(base) ==
    base @@
    [recommendation |-> "not_recommended",
     probability    |-> 0,
     confidence     |-> "low",
     explanation    |-> "No hay suficiente informacion",
     source         |-> "none"]

\* CASO 4 (main.py 344-349)
HybridNone(base) ==
    base @@
    [recommendation |-> "not_evaluated",
     probability    |-> Half,
     confidence     |-> "unavailable",
     explanation    |-> "No hay suficiente informacion",
     source         |-> "none"]

\* One pass of the loop over bet_types (main.py 274-351).  A rule
\* recommendation is a non-empty dict, hence true; bayesian_results is a dict
\* that may lack the key, and .get(bet_type, {}) is then the empty, false, dict.
HybridRec(recs, bayes, bet_type, home_team, away_team) ==
    LET i         == FirstRulesRec(recs, bet_type)
        has_rules == i # 0
        has_bayes == bet_type \in DOMAIN bayes
        base      == HybridBase(bet_type, home_team, away_team)
    IN  IF has_rules /\ has_bayes
        THEN IF (recs[i].recommendation = "recommended") = bayesian_recommend(bayes[bet_type])
             THEN HybridAgree(base, recs[i], bayes[bet_type])
             ELSE HybridDisagree(base, recs[i], bayes[bet_type])
        ELSE IF has_rules THEN HybridRulesOnly(base, recs[i])
        ELSE IF has_bayes THEN HybridBayesOnly(base, bayes[bet_type])
        ELSE HybridNone(base)

_combine_recommendations(recs, bayes, home_team, away_team) ==
    [bet_type \in BetTypeSet |-> HybridRec(recs, bayes, bet_type, home_team, away_team)]

----------------------------------------------------------------------------
(* bayesian_model.py: the network's tables.  A distribution over three     *)
(* states is the triple of its numerators and their common denominator, so *)
(* that the normalisation of _create_match_outcome_cpd is exact.           *)

States3 == 0..2

Clamp(lo, hi, x) == IF x < lo THEN lo ELSE IF x > hi THEN hi ELSE x

\* _create_match_outcome_cpd, one column: hs, aws are the strength states
\* (0 weak, 1 medium, 2 strong), hst, ast the style states (0 offensive,
\* 1 balanced, 2 defensive).  In thousandths.  (In floating point
\* 1.0 - 0.8 - 0.1 is just below 0.1 and takes the normalising branch with a
\* total of 1.0; the column is the same.)
MatchOutcomeColumn(hs, aws, hst, ast) ==
    LET home_advantage == 100
        strength_diff  == (hs - aws) * 200
        style_bonus    == IF hst = 0 /\ ast = 2 THEN 150
                          ELSE IF hst = 2 /\ ast = 0 THEN -100
                          ELSE 0
        p_home == Clamp(100, 800, 400 + home_advantage + strength_diff + style_bonus)
        p_away == Clamp(100, 600, 300 - (hs - aws) * 100)
        p_draw == 1000 - p_home - p_away
    IN  IF p_draw < 100
        THEN [p |-> <<p_home, 100, p_away>>, den |-> p_home + p_away + 100]
        ELSE [p |-> <<p_home, p_draw, p_away>>, den |-> 1000]

\* _create_total_goals_cpd, one column: hg, ag are the goal-tendency states.
TotalGoalsColumn(hg, ag) ==
    LET p_low    == IF 600 - 250 * (hg + ag) > 100 THEN 600 - 250 * (hg + ag) ELSE 100
        p_high   == IF 200 + 125 * (hg + ag) > 100 THEN 200 + 125 * (hg + ag) ELSE 100
        p_medium == 1000 - p_low - p_high
    IN  [p |-> <<p_low, p_medium, p_high>>, den |-> p_low + p_medium + p_high]

\* The row "recommended" of the five leaf tables, in tenths, by the state of
\* the parent (MatchOutcome: home_win, draw, away_win; TotalGoals: low,
\* medium, high).
RecommendedRow ==
    [HomeWinRecommendation |-> <<9, 2, 1>>,
     AwayWinRecommendation |-> <<1, 2, 9>>,
     DrawRecommendation    |-> <<2, 8, 2>>,
     OverRecommendation    |-> <<2, 5, 8>>,
     UnderRecommendation   |-> <<8, 5, 2>>]

rec_variables ==
    <<"HomeWinRecommendation", "AwayWinRecommendation", "DrawRecommendation",
      "OverRecommendation", "UnderRecommendation">>

\* var.replace('Recommendation', '').lower(), with homewin and awaywin renamed
RecType(var) ==
    CASE var = "HomeWinRecommendation" -> "home_win"
      [] var = "AwayWinRecommendation" -> "away_win"
      [] var = "DrawRecommendation"    -> "draw"
      [] var = "OverRecommendation"    -> "over"
      [] var = "UnderRecommendation"   -> "under"

_strength_to_state_inclusive(strength) ==
    IF strength <= 400 THEN 0 ELSE IF strength <= 700 THEN 1 ELSE 2

_strength_to_state(strength) ==
    IF strength < 400 THEN 0 ELSE IF strength < 700 THEN 1 ELSE 2

_style_to_state(style) ==
    CASE style = "offensive" -> 0
      [] style = "balanced"  -> 1
      [] style = "defensive" -> 2
      [] OTHER               -> 1

_goals_to_state(goals_per_match) ==
    IF goals_per_match < 1500 THEN 0 ELSE IF goals_per_match < 2500 THEN 1 ELSE 2

\* _convert_evidence, for an evidence dict that holds the six keys (the
\* application always passes the six, main.py 229-236)
_convert_evidence(ev) ==
    [HomeStrength      |-> _strength_to_state(ev.home_strength),
     AwayStrength      |-> _strength_to_state(ev.away_strength),
     HomeStyle         |-> _style_to_state(ev.home_style),
     AwayStyle         |-> _style_to_state(ev.away_style),
     HomeGoalsTendency |-> _goals_to_state(ev.home_goals_tendency),
     AwayGoalsTendency |-> _goals_to_state(ev.away_goals_tendency)]

RoundDiv(a, b) == (2 * a + b) \div (2 * b)

\* inference.query(variables=[var], evidence=network_evidence): with the six
\* roots observed the posterior of a leaf is the sum over its parent's states
\* of P(parent | roots) * P(leaf | parent).  P(recommended) in units of 1e-5.
Query(var, network_evidence) ==
    LET col == IF var \in {"OverRecommendation", "UnderRecommendation"}
               THEN TotalGoalsColumn(network_evidence.HomeGoalsTendency,
                                     network_evidence.AwayGoalsTendency)
               ELSE MatchOutcomeColumn(network_evidence.HomeStrength,
                                       network_evidence.AwayStrength,
                                       network_evidence.HomeStyle,
                                       network_evidence.AwayStyle)
        row == RecommendedRow[var]
        num == col.p[1] * row[1] + col.p[2] * row[2] + col.p[3] * row[3]
    IN  RoundDiv(num * 10000, col.den)

\* the dict stored for a leaf whose query succeeded (bayesian_model.py 337-341)
PosteriorEntry(p) ==
    [not_recommended |-> One - p,
     recommended     |-> p,
     confidence      |-> IF p > 70000 THEN "high" ELSE IF p > Half THEN "medium" ELSE "low"]

\* the dict stored by the except branch (bayesian_model.py 345-349)
DefaultEntry ==
    [not_recommended |-> Half, recommended |-> Half, confidence |-> "low"]

Unbound == "<unbound>"

Put(dict, key, value) ==
    [k \in DOMAIN dict \cup {key} |-> IF k = key THEN value ELSE dict[k]]

\* The loop of predict (bayesian_model.py 325-349) from its i-th variable on.
\* rec_type is the local variable of that name: it is assigned inside the try
\* block, after the query, so the except branch reads the value left by the
\* previous pass, and on the first pass reads an unbound local, which raises
\* UnboundLocalError out of predict.
RECURSIVE PredictLoop(_, _, _, _, _)
PredictLoop(network_evidence, fail, i, recs, rec_type) ==
    IF i > Len(rec_variables) THEN [status |-> "returned", recommendations |-> recs]
    ELSE LET var == rec_variables[i]
         IN  IF var \notin fail
             THEN PredictLoop(network_evidence, fail, i + 1,
                              Put(recs, RecType(var),
                                  PosteriorEntry(Query(var, network_evidence))),
                              RecType(var))
             ELSE IF rec_type = Unbound
             THEN [status |-> "raised", recommendations |-> recs]
             ELSE PredictLoop(network_evidence, fail, i + 1,
                              Put(recs, rec_type, DefaultEntry), rec_type)

predict(ev, fail) == PredictLoop(_convert_evidence(ev), fail, 1, EmptyDict, Unbound)

----------------------------------------------------------------------------
(* data_processor.py / knowledge_model.py: the facts *)

\* The per-team statistics the processor aggregates (thousandths).
team_data ==
    [t \in {"Real Madrid", "Sheriff", "Atletico", "Juventus", "Porto", "Ajax", "Bayern"} |->
        CASE t = "Real Madrid" ->
               [attacking_strength |-> 800, defensive_strength |-> 700,
                goals_per_match |-> 2400, goals_conceded_per_match |-> 900,
                discipline_rating |-> 500, cleansheet_rate |-> 400]
          [] t = "Sheriff" ->
               [attacking_strength |-> 350, defensive_strength |-> 250,
                goals_per_match |-> 800, goals_conceded_per_match |-> 2000,
                discipline_rating |-> 800, cleansheet_rate |-> 100]
          [] t = "Atletico" ->
               [attacking_strength |-> 400, defensive_strength |-> 750,
                goals_per_match |-> 1100, goals_conceded_per_match |-> 700,
                discipline_rating |-> 800, cleansheet_rate |-> 500]
          [] t = "Juventus" ->
               [attacking_strength |-> 420, defensive_strength |-> 760,
                goals_per_match |-> 1200, goals_conceded_per_match |-> 800,
                discipline_rating |-> 780, cleansheet_rate |-> 450]
          [] t = "Porto" ->
               [attacking_strength |-> 500, defensive_strength |-> 460,
                goals_per_match |-> 1400, goals_conceded_per_match |-> 1200,
                discipline_rating |-> 760, cleansheet_rate |-> 300]
          [] t = "Ajax" ->
               [attacking_strength |-> 560, defensive_strength |-> 440,
                goals_per_match |-> 1500, goals_conceded_per_match |-> 1300,
                discipline_rating |-> 780, cleansheet_rate |-> 280]
          [] t = "Bayern" ->
               [attacking_strength |-> 780, defensive_strength |-> 600,
                goals_per_match |-> 2200, goals_conceded_per_match |-> 1000,
                discipline_rating |-> 700, cleansheet_rate |-> 350]]

available_teams == DOMAIN team_data

Abs(x) == IF x < 0 THEN -x ELSE x

Min(x, y) == IF x < y THEN x ELSE y

Max(x, y) == IF x > y THEN x ELSE y

\* UCLDataProcessor.create_team_summary: the keys the fact is built from
create_team_summary(team_name) ==
    LET d == team_data[team_name]
    IN  [team                      |-> team_name,
         attacking_strength        |-> d.attacking_strength,
         defensive_strength        |-> d.defensive_strength,
         overall_strength          |-> (d.attacking_strength + d.defensive_strength) \div 2,
         goals_per_match           |-> d.goals_per_match,
         goals_conceded_per_match  |-> d.goals_conceded_per_match,
         goal_difference_per_match |-> d.goals_per_match - d.goals_conceded_per_match,
         discipline_rating         |-> d.discipline_rating,
         cleansheet_rate           |-> d.cleansheet_rate,
         team_style                |->
             IF d.attacking_strength > 700 THEN "offensive"
             ELSE IF d.defensive_strength > 700 THEN "defensive"
             ELSE IF Abs(d.attacking_strength - d.defensive_strength) < 100 THEN "balanced"
             ELSE "mixed"]

\* what a constructor that raises ValueError leaves: no fact
ValueError == [kind |-> "ValueError"]

required_fields == {"team", "attacking_strength", "defensive_strength", "overall_strength"}

\* dict.get(key, default)
Get(d, key, default) == IF key \in DOMAIN d THEN d[key] ELSE default

from_team_summary_upper_only(team_summary) ==
    IF ~(required_fields \subseteq DOMAIN team_summary) THEN ValueError
    ELSE
    [kind                      |-> "TeamFact",
     team                      |-> team_summary.team,
     attacking_strength        |-> Min(1000, team_summary.attacking_strength),
     defensive_strength        |-> Min(1000, team_summary.defensive_strength),
     overall_strength          |-> Min(1000, team_summary.overall_strength),
     goals_per_match           |-> Get(team_summary, "goals_per_match", 1500),
     goals_conceded_per_match  |-> Get(team_summary, "goals_conceded_per_match", 1000),
     goal_difference_per_match |-> Get(team_summary, "goal_difference_per_match", 0),
     discipline_rating         |-> Min(1000, Get(team_summary, "discipline_rating", 500)),
     team_style                |-> Get(team_summary, "team_style", "balanced"),
     cleansheet_rate           |-> Get(team_summary, "cleansheet_rate", 0)]

\* TeamFact.from_team_summary: ValueError when a required key is missing;
\* the four strength-like fields, where present, are clamped to [0, 1]; the
\* optional keys have defaults
from_team_summary(team_summary) ==
    IF ~(required_fields \subseteq DOMAIN team_summary) THEN ValueError
    ELSE
    [kind                      |-> "TeamFact",
     team                      |-> team_summary.team,
     attacking_strength        |-> Clamp(0, 1000, team_summary.attacking_strength),
     defensive_strength        |-> Clamp(0, 1000, team_summary.defensive_strength),
     overall_strength          |-> Clamp(0, 1000, team_summary.overall_strength),
     goals_per_match           |-> Get(team_summary, "goals_per_match", 1500),
     goals_conceded_per_match  |-> Get(team_summary, "goals_conceded_per_match", 1000),
     goal_difference_per_match |-> Get(team_summary, "goal_difference_per_match", 0),
     discipline_rating         |-> IF "discipline_rating" \in DOMAIN team_summary
                                   THEN Clamp(0, 1000, team_summary.discipline_rating)
                                   ELSE 500,
     team_style                |-> Get(team_summary, "team_style", "balanced"),
     cleansheet_rate           |-> Get(team_summary, "cleansheet_rate", 0)]

clear_favorite_from_100(overall_diff, overall_advantage) ==
    IF Abs(overall_diff) > 50 /\ Abs(overall_diff) > 100 THEN overall_advantage ELSE ""

\* create_matchup_fact, clear_favorite: set inside the branch of
\* abs(overall_diff) > 0.05, when abs(overall_diff) > 0.15
clear_favorite_of(overall_diff, overall_advantage) ==
    IF Abs(overall_diff) > 50 /\ Abs(overall_diff) > 150 THEN overall_advantage ELSE ""

match_type_styles_only(home_facts, away_facts) ==
    IF home_facts.team_style = "offensive" \/ away_facts.team_style = "offensive"
    THEN "attack_focused"
    ELSE IF home_facts.team_style = "defensive" /\ away_facts.team_style = "defensive"
    THEN "defense_focused"
    ELSE "balanced"

\* create_matchup_fact, match_type: first by the average strengths, then
\* by the styles
match_type_of(home_facts, away_facts) ==
    LET \* averages doubled: avg_x > avg_y + 0.1 is sum_x > sum_y + 0.2
        sum_attacking  == home_facts.attacking_strength + away_facts.attacking_strength
        sum_defensive  == home_facts.defensive_strength + away_facts.defensive_strength
        by_strength    == IF sum_attacking > sum_defensive + 200 THEN "attack_focused"
                          ELSE IF sum_defensive > sum_attacking + 200 THEN "defense_focused"
                          ELSE "balanced"
    IN  IF home_facts.team_style = "offensive" \/ away_facts.team_style = "offensive"
        THEN (IF by_strength = "balanced" THEN "attack_focused" ELSE by_strength)
        ELSE IF home_facts.team_style = "defensive" /\ away_facts.team_style = "defensive"
        THEN "defense_focused"
        ELSE by_strength

\* FactBuilder.create_matchup_fact
create_matchup_fact(home_team, away_team, home_facts, away_facts) ==
    LET attacking_diff == home_facts.attacking_strength - away_facts.attacking_strength
        defensive_diff == home_facts.defensive_strength - away_facts.defensive_strength
        overall_diff   == home_facts.overall_strength - away_facts.overall_strength
        overall_advantage ==
            IF Abs(overall_diff) > 50
            THEN (IF overall_diff > 0 THEN home_team ELSE away_team) ELSE ""
    IN  [kind                |-> "MatchupFact",
         home_team           |-> home_team,
         away_team           |-> away_team,
         attacking_advantage |-> IF Abs(attacking_diff) > 50
                                 THEN (IF attacking_diff > 0 THEN home_team ELSE away_team)
                                 ELSE "",
         attacking_margin    |-> Abs(attacking_diff),
         defensive_advantage |-> IF Abs(defensive_diff) > 50
                                 THEN (IF defensive_diff > 0 THEN home_team ELSE away_team)
                                 ELSE "",
         defensive_margin    |-> Abs(defensive_diff),
         overall_advantage   |-> overall_advantage,
         overall_margin      |-> Abs(overall_diff),
         clear_favorite      |-> clear_favorite_of(overall_diff, overall_advantage),
         match_type          |-> match_type_of(home_facts, away_facts)]

\* the threshold field of a BetType created without one (None)
NoThreshold == -1

valid_types == {"home_win", "away_win", "draw", "over", "under"}

BetType_create_any(bet_type, home_team, away_team, threshold) ==
    [kind      |-> "BetType",
     bet_type  |-> bet_type,
     home_team |-> home_team,
     away_team |-> away_team,
     threshold |-> IF bet_type \in {"over", "under"} /\ threshold = NoThreshold
                   THEN 2500 ELSE threshold]

\* BetType.create: ValueError for a type outside the five; over and under
\* get the threshold 2.5 when none is given
BetType_create(bet_type, home_team, away_team, threshold) ==
    IF bet_type \notin valid_types THEN ValueError
    ELSE
    [kind      |-> "BetType",
     bet_type  |-> bet_type,
     home_team |-> home_team,
     away_team |-> away_team,
     threshold |-> IF bet_type \in {"over", "under"} /\ threshold = NoThreshold
                   THEN 2500 ELSE threshold]

\* BetRecommendationFact.create: ValueError for a confidence outside high,
\* medium, low and for a recommendation outside recommended, not_recommended;
\* the timestamp is left out
BetRecommendationFact_create(bet_type, home_team, away_team, recommendation, confidence, probability, explanation, rules_fired) ==
    IF confidence \notin {"high", "medium", "low"} THEN ValueError
    ELSE IF recommendation \notin {"recommended", "not_recommended"} THEN ValueError
    ELSE
    [kind           |-> "BetRecommendationFact",
     bet_type       |-> bet_type,
     home_team      |-> home_team,
     away_team      |-> away_team,
     recommendation |-> recommendation,
     confidence     |-> confidence,
     probability    |-> probability,
     explanation    |-> explanation,
     rules_fired    |-> rules_fired]

InitialFact == [kind |-> "InitialFact"]

NoFact == [kind |-> "NoFact"]

----------------------------------------------------------------------------
(* Number formatting of the explanations (values in thousandths) *)

TwoDigits(n) == IF n < 10 THEN "0" \o ToString(n) ELSE ToString(n)

RoundHalfEven(x, unit) ==
    LET q == x \div unit
        r == x % unit
    IN  IF 2 * r > unit \/ (2 * r = unit /\ q % 2 = 1) THEN q + 1 ELSE q

\* f"{x:.2f}"
F2(x) ==
    LET h == RoundHalfEven(Abs(x), 10)
    IN  (IF x < 0 /\ h > 0 THEN "-" ELSE "") \o ToString(h \div 100) \o "." \o TwoDigits(h % 100)

\* f"{x:.1f}"
F1(x) ==
    LET t == RoundHalfEven(Abs(x), 100)
    IN  (IF x < 0 /\ t > 0 THEN "-" ELSE "") \o ToString(t \div 10) \o "." \o ToString(t % 10)

\* f"{x:.1%}"
P1(x) == ToString(x \div 10) \o "." \o ToString(x % 10) \o "%"

----------------------------------------------------------------------------
(* rules_engine.py: the rule catalogue.  For each rule: the TEST of its    *)
(* left-hand side, the confidence and the explanation its right-hand side  *)
(* computes.  h and a are the TeamFacts matched as home and away team, m   *)
(* the MatchupFact, b the BetType fact.                                    *)

clear_favorite_home_win_test(h, a, m, b) ==
    m.clear_favorite # "" /\ m.clear_favorite = m.home_team

clear_favorite_home_win_confidence_from(h, a, m, b) ==
    IF m.overall_margin >= 250 THEN "high" ELSE "medium"

clear_favorite_home_win_confidence(h, a, m, b) ==
    IF m.overall_margin > 250 THEN "high" ELSE "medium"

strong_home_attack_vs_weak_away_defense_test(h, a, m, b) ==
    /\ h.attacking_strength > 590
    /\ a.defensive_strength < 320
    /\ h.goals_per_match > 1670
    /\ a.goals_conceded_per_match > 1300
    /\ m.attacking_advantage = m.home_team

strong_home_attack_vs_weak_away_defense_confidence(h, a, m, b) ==
    LET confidence_factors ==
            (IF h.attacking_strength > 720 THEN 1 ELSE 0)
          + (IF a.defensive_strength < 320 THEN 1 ELSE 0)
          + (IF h.goals_per_match > 2000 THEN 1 ELSE 0)
          + (IF a.goals_conceded_per_match > 1500 THEN 1 ELSE 0)
    IN  IF confidence_factors >= 3 THEN "high" ELSE "medium"

offensive_home_vs_defensive_away_styles_only(h, a, m, b) ==
    /\ h.team_style = "offensive"
    /\ a.team_style = "defensive"

offensive_home_vs_defensive_away_test(h, a, m, b) ==
    /\ h.team_style = "offensive"
    /\ a.team_style = "defensive"
    /\ h.overall_strength > a.overall_strength + 100

offensive_home_vs_defensive_away_confidence(h, a, m, b) ==
    IF h.overall_strength - a.overall_strength > 200 THEN "high" ELSE "medium"

clear_favorite_away_win_test(h, a, m, b) ==
    m.clear_favorite # "" /\ m.clear_favorite = m.away_team

clear_favorite_away_win_confidence(h, a, m, b) ==
    IF m.overall_margin > 300 THEN "high" ELSE "medium"

dominant_away_team_test(h, a, m, b) ==
    /\ a.attacking_strength > 720
    /\ a.defensive_strength > 440
    /\ a.overall_strength > h.overall_strength + 120

dominant_away_team_confidence(h, a, m, b) ==
    IF a.overall_strength - h.overall_strength > 250 THEN "high" ELSE "medium"

balanced_defensive_teams_draw_test(h, a, m, b) ==
    /\ m.overall_margin < 100
    /\ Min(h.defensive_strength, a.defensive_strength) > 440
    /\ h.cleansheet_rate + a.cleansheet_rate > 400

\* avg_defense > 0.44 is h_defense + a_defense > 0.88
balanced_defensive_teams_draw_confidence(h, a, m, b) ==
    IF m.overall_margin < 60 /\ h.defensive_strength + a.defensive_strength > 880
    THEN "medium" ELSE "low"

disciplined_balanced_teams_draw_test(h, a, m, b) ==
    /\ Min(h.discipline_rating, a.discipline_rating) > 740
    /\ Abs(h.goal_difference_per_match) < 300
    /\ Abs(a.goal_difference_per_match) < 300

disciplined_balanced_teams_draw_confidence(h, a, m, b) ==
    IF /\ h.discipline_rating + a.discipline_rating > 1480
       /\ Abs(h.goal_difference_per_match) + Abs(a.goal_difference_per_match) < 400
    THEN "medium" ELSE "low"

offensive_teams_over_test(h, a, m, b) ==
    /\ h.attacking_strength > 590
    /\ a.attacking_strength > 590
    /\ h.goals_per_match + a.goals_per_match > b.threshold + 300
    /\ m.match_type = "attack_focused"

offensive_teams_over_confidence(h, a, m, b) ==
    IF /\ h.goals_per_match + a.goals_per_match > b.threshold + 800
       /\ h.attacking_strength + a.attacking_strength > 1440
    THEN "high" ELSE "medium"

attack_vs_weak_defense_over_test(h, a, m, b) ==
    /\ h.attacking_strength > 720
    /\ a.defensive_strength < 320
    /\ a.goals_conceded_per_match > 1800
    /\ h.discipline_rating < 520

attack_vs_weak_defense_over_confidence_stricter(h, a, m, b) ==
    IF h.attacking_strength > 800 /\ a.defensive_strength < 320 THEN "high" ELSE "medium"

attack_vs_weak_defense_over_confidence(h, a, m, b) ==
    IF h.attacking_strength > 720 /\ a.defensive_strength < 320 THEN "high" ELSE "medium"

strong_defenses_under_test(h, a, m, b) ==
    /\ Min(h.defensive_strength, a.defensive_strength) > 440
    /\ Max(h.goals_conceded_per_match, a.goals_conceded_per_match) < b.threshold - 200
    /\ h.cleansheet_rate + a.cleansheet_rate > 400

strong_defenses_under_confidence(h, a, m, b) ==
    IF /\ h.defensive_strength + a.defensive_strength > 1000
       /\ h.goals_conceded_per_match + a.goals_conceded_per_match < 2 * (b.threshold - 400)
    THEN "high" ELSE "medium"

disciplined_low_attack_under_test(h, a, m, b) ==
    /\ Min(h.discipline_rating, a.discipline_rating) > 740
    /\ Max(h.attacking_strength, a.attacking_strength) < 450

disciplined_low_attack_under_confidence(h, a, m, b) ==
    IF /\ h.discipline_rating + a.discipline_rating > 1480
       /\ h.attacking_strength + a.attacking_strength < 800
    THEN "medium" ELSE "low"

\* here h and a are the facts bound to team1 and team2
low_discipline_warning_test(h, a, m, b) ==
    Min(h.discipline_rating, a.discipline_rating) < 520

\* The rules that emit a recommendation: name, bet type, and which team name
\* of the BetType pattern is bound to the matchup's (the over and under rules
\* bind only the threshold), and whether the pattern needs the TeamFacts.
RuleTable ==
    { [name |-> "ClearFavoriteHomeWin",              bet |-> "home_win", bind |-> "home", teams |-> FALSE],
      [name |-> "StrongHomeAttackVsWeakAwayDefense", bet |-> "home_win", bind |-> "home", teams |-> TRUE],
      [name |-> "OffensiveHomeVsDefensiveAway",      bet |-> "home_win", bind |-> "home", teams |-> TRUE],
      [name |-> "ClearFavoriteAwayWin",              bet |-> "away_win", bind |-> "away", teams |-> FALSE],
      [name |-> "DominantAwayTeam",                  bet |-> "away_win", bind |-> "away", teams |-> TRUE],
      [name |-> "BalancedDefensiveTeamsDraw",        bet |-> "draw",     bind |-> "home", teams |-> TRUE],
      [name |-> "DisciplinedBalancedTeamsDraw",      bet |-> "draw",     bind |-> "home", teams |-> TRUE],
      [name |-> "OffensiveTeamsOver",                bet |-> "over",     bind |-> "none", teams |-> TRUE],
      [name |-> "AttackVsWeakDefenseOver",           bet |-> "over",     bind |-> "none", teams |-> TRUE],
      [name |-> "StrongDefensesUnder",               bet |-> "under",    bind |-> "none", teams |-> TRUE],
      [name |-> "DisciplinedLowAttackUnder",         bet |-> "under",    bind |-> "none", teams |-> TRUE] }

RuleNames == {r.name : r \in RuleTable}

RuleTest(name, h, a, m, b) ==
    CASE name = "ClearFavoriteHomeWin"              -> clear_favorite_home_win_test(h, a, m, b)
      [] name = "StrongHomeAttackVsWeakAwayDefense" -> strong_home_attack_vs_weak_away_defense_test(h, a, m, b)
      [] name = "OffensiveHomeVsDefensiveAway"      -> offensive_home_vs_defensive_away_test(h, a, m, b)
      [] name = "ClearFavoriteAwayWin"              -> clear_favorite_away_win_test(h, a, m, b)
      [] name = "DominantAwayTeam"                  -> dominant_away_team_test(h, a, m, b)
      [] name = "BalancedDefensiveTeamsDraw"        -> balanced_defensive_teams_draw_test(h, a, m, b)
      [] name = "DisciplinedBalancedTeamsDraw"      -> disciplined_balanced_teams_draw_test(h, a, m, b)
      [] name = "OffensiveTeamsOver"                -> offensive_teams_over_test(h, a, m, b)
      [] name = "AttackVsWeakDefenseOver"           -> attack_vs_weak_defense_over_test(h, a, m, b)
      [] name = "StrongDefensesUnder"               -> strong_defenses_under_test(h, a, m, b)
      [] name = "DisciplinedLowAttackUnder"         -> disciplined_low_attack_under_test(h, a, m, b)
      [] name = "LowDisciplineWarning"              -> low_discipline_warning_test(h, a, m, b)

RuleConfidence(name, h, a, m, b) ==
    CASE name = "ClearFavoriteHomeWin"              -> clear_favorite_home_win_confidence(h, a, m, b)
      [] name = "StrongHomeAttackVsWeakAwayDefense" -> strong_home_attack_vs_weak_away_defense_confidence(h, a, m, b)
      [] name = "OffensiveHomeVsDefensiveAway"      -> offensive_home_vs_defensive_away_confidence(h, a, m, b)
      [] name = "ClearFavoriteAwayWin"              -> clear_favorite_away_win_confidence(h, a, m, b)
      [] name = "DominantAwayTeam"                  -> dominant_away_team_confidence(h, a, m, b)
      [] name = "BalancedDefensiveTeamsDraw"        -> balanced_defensive_teams_draw_confidence(h, a, m, b)
      [] name = "DisciplinedBalancedTeamsDraw"      -> disciplined_balanced_teams_draw_confidence(h, a, m, b)
      [] name = "OffensiveTeamsOver"                -> offensive_teams_over_confidence(h, a, m, b)
      [] name = "AttackVsWeakDefenseOver"           -> attack_vs_weak_defense_over_confidence(h, a, m, b)
      [] name = "StrongDefensesUnder"               -> strong_defenses_under_confidence(h, a, m, b)
      [] name = "DisciplinedLowAttackUnder"         -> disciplined_low_attack_under_confidence(h, a, m, b)

\* The opening sentence of the explanation each rule composes.
RuleExplanation(name, h, a, m, b) ==
    CASE name = "ClearFavoriteHomeWin" ->
           m.home_team \o " es claramente superior a " \o m.away_team \o " con "
             \o P1(m.overall_margin) \o " de ventaja."
      [] name = "StrongHomeAttackVsWeakAwayDefense" ->
           m.home_team \o " presenta ventajas decisivas: ataque potente ("
             \o F2(h.attacking_strength) \o "), excelente promedio goleador ("
             \o F1(h.goals_per_match) \o " goles/partido)."
      [] name = "OffensiveHomeVsDefensiveAway" ->
           m.home_team \o " (estilo " \o h.team_style \o ") tiene ventaja tactica en casa contra "
             \o m.away_team \o " (estilo " \o a.team_style \o "). Diferencia de nivel: "
             \o F2(h.overall_strength - a.overall_strength) \o "."
      [] name = "ClearFavoriteAwayWin" ->
           m.away_team \o " es claramente superior a " \o m.home_team \o " con "
             \o P1(m.overall_margin) \o " de ventaja."
      [] name = "DominantAwayTeam" ->
           m.away_team \o " domina en ambas fases: ataque excelente ("
             \o F2(a.attacking_strength) \o ") y defensa solida ("
             \o F2(a.defensive_strength) \o ")."
      [] name = "BalancedDefensiveTeamsDraw" ->
           "Equipos muy equilibrados: diferencia minima de " \o F2(m.overall_margin) \o "."
      [] name = "DisciplinedBalancedTeamsDraw" ->
           "Ambos equipos muestran alta disciplina y diferencias de gol equilibradas ("
             \o F2(h.goal_difference_per_match) \o " vs "
             \o F2(a.goal_difference_per_match) \o ")."
      [] name = "OffensiveTeamsOver" ->
           "Enfrentamiento altamente ofensivo: " \o m.home_team \o " ("
             \o F2(h.attacking_strength) \o " ataque, " \o F1(h.goals_per_match)
             \o " goles/partido) vs " \o m.away_team \o " ("
             \o F2(a.attacking_strength) \o " ataque, " \o F1(a.goals_per_match)
             \o " goles/partido)."
      [] name = "AttackVsWeakDefenseOver" ->
           m.home_team \o " tiene ataque letal (" \o F2(h.attacking_strength)
             \o ") y baja disciplina (" \o F2(h.discipline_rating) \o "). "
             \o m.away_team \o " es muy vulnerable defensivamente ("
             \o F2(a.defensive_strength) \o ")."
      [] name = "StrongDefensesUnder" ->
           "Enfrentamiento defensivo: ambos equipos conceden pocos goles ("
             \o F1(h.goals_conceded_per_match) \o " y "
             \o F1(a.goals_conceded_per_match) \o "/partido)."
      [] name = "DisciplinedLowAttackUnder" ->
           "Ambos equipos son muy disciplinados pero con limitado poder ofensivo,"
             \o " quedando por debajo de " \o F1(b.threshold) \o " goles."

----------------------------------------------------------------------------
(* The engine: experta's working memory and agenda, and the three fields   *)
(* BettingExpertSystem adds.  expert_system is a record                    *)
(*   facts             the working memory, a set of facts                  *)
(*   agenda            the activations not yet fired                       *)
(*   recommendations   self.recommendations, a list                        *)
(*   explanations      self.explanations, a dict                           *)
(*   rules_fired_count self.rules_fired_count, a dict                      *)

OfKind(facts, kind) == {f \in facts : f.kind = kind}

Activation(name, h, a, m, b) == [rule |-> name, h |-> h, a |-> a, m |-> m, b |-> b]

\* The joins of the left-hand sides, over a working memory.
RuleActivations(facts) ==
    { Activation(r.name, hh, aa, m, b) :
        r \in RuleTable,
        hh \in OfKind(facts, "TeamFact") \cup {NoFact},
        aa \in OfKind(facts, "TeamFact") \cup {NoFact},
        m \in OfKind(facts, "MatchupFact"),
        b \in OfKind(facts, "BetType") }

Matches(act) ==
    LET r == CHOOSE x \in RuleTable : x.name = act.rule
    IN  /\ act.b.bet_type = r.bet
        /\ r.bind = "home" => act.b.home_team = act.m.home_team
        /\ r.bind = "away" => act.b.away_team = act.m.away_team
        /\ IF r.teams
           THEN /\ act.h # NoFact /\ act.a # NoFact
                /\ act.h.team = act.m.home_team
                /\ act.a.team = act.m.away_team
           ELSE act.h = NoFact /\ act.a = NoFact
        /\ RuleTest(act.rule, act.h, act.a, act.m, act.b)

\* low_discipline_warning: team1, team2 and a MatchupFact in either order
WarningActivations(facts) ==
    { Activation("LowDisciplineWarning", t1, t2, m, NoFact) :
        t1 \in OfKind(facts, "TeamFact"),
        t2 \in OfKind(facts, "TeamFact"),
        m \in OfKind(facts, "MatchupFact") }

WarningMatches(act) ==
    /\ \/ (act.m.home_team = act.h.team /\ act.m.away_team = act.a.team)
       \/ (act.m.home_team = act.a.team /\ act.m.away_team = act.h.team)
    /\ RuleTest("LowDisciplineWarning", act.h, act.a, act.m, act.b)

Activations(facts) ==
    {act \in RuleActivations(facts) : Matches(act)}
        \cup {act \in WarningActivations(facts) : WarningMatches(act)}

\* BettingExpertSystem.__init__: nothing declared, nothing recorded
NewEngine ==
    [facts |-> {}, agenda |-> {}, recommendations |-> <<>>,
     explanations |-> EmptyDict, rules_fired_count |-> EmptyDict]

KeepsRecommendations(es) ==
    [facts |-> {InitialFact}, agenda |-> {}, recommendations |-> es.recommendations,
     explanations |-> EmptyDict, rules_fired_count |-> EmptyDict]

KeepsFacts(es) ==
    [facts |-> es.facts \cup {InitialFact}, agenda |-> {}, recommendations |-> <<>>,
     explanations |-> EmptyDict, rules_fired_count |-> EmptyDict]

\* BettingExpertSystem.reset
reset(es) ==
    [facts |-> {InitialFact}, agenda |-> {}, recommendations |-> <<>>,
     explanations |-> EmptyDict, rules_fired_count |-> EmptyDict]

\* the fact classes that occur in a pattern of some rule
PatternKinds == {"TeamFact", "MatchupFact", "BetType"}

NewActivationsRefire(facts, fact) ==
    IF fact.kind \notin PatternKinds THEN Activations(facts)
    ELSE {act \in Activations(facts \cup {fact}) : fact \in {act.h, act.a, act.m, act.b}}

\* the activations that a fact new to the working memory completes: a fact
\* is handed only to the patterns of its own class
NewActivations(facts, fact) ==
    IF fact.kind \notin PatternKinds THEN {}
    ELSE {act \in Activations(facts \cup {fact}) : fact \in {act.h, act.a, act.m, act.b}}

\* KnowledgeEngine.declare: a fact equal to one in memory is not added again;
\* the activations the new fact completes join the agenda
declare(es, fact) ==
    IF fact \in es.facts THEN es
    ELSE [es EXCEPT !.facts  = es.facts \cup {fact},
                    !.agenda = es.agenda \cup NewActivations(es.facts, fact)]

probability_flat(confidence) == 60000

probability_map(confidence) ==
    CASE confidence = "high"   -> 75000
      [] confidence = "medium" -> 60000
      [] confidence = "low"    -> 55000
      [] OTHER                 -> 50000

CountOnly(es, bet_type, home_team, away_team, recommendation, confidence, explanation, rule_name) ==
    [es EXCEPT !.rules_fired_count =
                   Put(es.rules_fired_count, rule_name,
                       IF rule_name \in DOMAIN es.rules_fired_count
                       THEN es.rules_fired_count[rule_name] + 1 ELSE 1)]

\* BettingExpertSystem._create_recommendation
_create_recommendation(es, bet_type, home_team, away_team, recommendation, confidence, explanation, rule_name) ==
    LET recommendation_fact ==
            BetRecommendationFact_create(bet_type, home_team, away_team, recommendation,
                                         confidence, probability_map(confidence),
                                         explanation, <<rule_name>>)
        counted == [es EXCEPT !.rules_fired_count =
                       Put(es.rules_fired_count, rule_name,
                           IF rule_name \in DOMAIN es.rules_fired_count
                           THEN es.rules_fired_count[rule_name] + 1 ELSE 1)]
        declared == declare(counted, recommendation_fact)
    IN  [declared EXCEPT !.recommendations = Append(declared.recommendations, recommendation_fact)]

low_discipline_warning_team1(es, act) ==
    LET team1 == act.h.team
        team2 == act.a.team
        warning == "ADVERTENCIA: " \o team1
                     \o " tiene disciplina muy baja (" \o F2(act.h.discipline_rating) \o ")."
    IN  [es EXCEPT !.explanations =
             Put(es.explanations, team1 \o "_vs_" \o team2 \o "_discipline_warning", warning)]

\* the right-hand side of low_discipline_warning
low_discipline_warning(es, act) ==
    LET team1 == act.h.team
        team2 == act.a.team
        disc1 == act.h.discipline_rating
        disc2 == act.a.discipline_rating
        low_discipline_team == IF disc1 < disc2 THEN team1 ELSE team2
        disc_value == IF disc1 < disc2 THEN disc1 ELSE disc2
        warning == "ADVERTENCIA: " \o low_discipline_team
                     \o " tiene disciplina muy baja (" \o F2(disc_value) \o ")."
    IN  [es EXCEPT !.explanations =
             Put(es.explanations, team1 \o "_vs_" \o team2 \o "_discipline_warning", warning)]

RuleDecisionAgainst(rule) ==
    IF rule \in {"ClearFavoriteAwayWin", "StrongDefensesUnder"}
    THEN "not_recommended" ELSE "recommended"

\* the recommendation argument each rule of the catalogue passes to
\* _create_recommendation
RuleDecision(rule) == "recommended"

\* One activation taken from the agenda and its right-hand side executed.
Fire(es, act) ==
    LET popped == [es EXCEPT !.agenda = es.agenda \ {act}]
    IN  IF act.rule = "LowDisciplineWarning"
        THEN low_discipline_warning(popped, act)
        ELSE _create_recommendation(
                 popped,
                 (CHOOSE r \in RuleTable : r.name = act.rule).bet,
                 act.m.home_team, act.m.away_team, RuleDecision(act.rule),
                 RuleConfidence(act.rule, act.h, act.a, act.m, act.b),
                 RuleExplanation(act.rule, act.h, act.a, act.m, act.b),
                 act.rule)

\* KnowledgeEngine.run: activations are fired until the agenda is empty.  No
\* salience is declared, and the order in which the agenda hands out the
\* activations of different rules is left open here: run has one outcome per
\* order.  (The warnings write distinct keys or equal values, so only the
\* order of the recommending activations is enumerated.)
RECURSIVE run(_)
run(es) ==
    IF es.agenda = {} THEN {es}
    ELSE LET warnings == {act \in es.agenda : act.rule = "LowDisciplineWarning"}
         IN  IF warnings # {}
             THEN run(Fire(es, CHOOSE act \in warnings : TRUE))
             ELSE UNION {run(Fire(es, act)) : act \in es.agenda}

\* BettingExpertSystem._fact_to_dict: the fields of the fact as a dict
_fact_to_dict(fact) == [k \in DOMAIN fact \ {"kind"} |-> fact[k]]

get_recommendations(es) ==
    [i \in 1..Len(es.recommendations) |-> _fact_to_dict(es.recommendations[i])]

get_explanations(es) == es.explanations

get_rules_fired_summary(es) == es.rules_fired_count

----------------------------------------------------------------------------
(* The engine used through its own interface, as the unit tests do:        *)
(* reset(), declare(fact) and run() in any order.                          *)

\* most facts a user declares between two resets
MaxDeclared == 5

\* the fixtures whose facts are declared
EngineFixtures == {<<"Real Madrid", "Sheriff">>, <<"Sheriff", "Real Madrid">>}

get_team_fact(team_name) == from_team_summary(create_team_summary(team_name))

MatchupOf(home_team, away_team) ==
    create_matchup_fact(home_team, away_team,
                        get_team_fact(home_team), get_team_fact(away_team))

FactUniverse ==
    {get_team_fact(fx[1]) : fx \in EngineFixtures}
        \cup {MatchupOf(fx[1], fx[2]) : fx \in EngineFixtures}
        \cup {BetType_create(bt, fx[1], fx[2], NoThreshold) :
                bt \in BetTypeSet, fx \in EngineFixtures}

Declared(es) == {f \in es.facts : f.kind \in {"TeamFact", "MatchupFact", "BetType"}}

NoCall == [op |-> "none", had_output |-> FALSE]

EngineIdle ==
    /\ expert_system = NewEngine
    /\ last_call = NoCall

\* None, where the context holds a string
NoQuestion == "None"

\* None, where the context holds the dict of an analysis
NoAnalysis == [kind |-> "None"]

\* BettingExpertApp.__init__: self.context
NewContext ==
    [last_teams         |-> <<>>,
     last_analysis      |-> NoAnalysis,
     current_intent     |-> "None",
     follow_up_question |-> NoQuestion]

AppIdle ==
    /\ team_facts_cache = EmptyDict
    /\ results = <<>>
    /\ threads = EmptyDict
    /\ context = NewContext

Init ==
    /\ expert_system = NewEngine
    /\ last_call = NoCall
    /\ CombineIdle
    /\ PredictIdle
    /\ AppIdle
    /\ CallIdle

Reset ==
    /\ expert_system' = reset(expert_system)
    /\ last_call' = [op |-> "reset",
                     had_output |-> /\ expert_system.recommendations # <<>>
                                    /\ DOMAIN expert_system.explanations # {}]
    /\ UNCHANGED <<combineVars, predictVars, appVars, callVars>>

Declare ==
    \E fact \in FactUniverse \ expert_system.facts :
        /\ Cardinality(Declared(expert_system)) < MaxDeclared
        /\ expert_system' = declare(expert_system, fact)
        /\ last_call' = [op |-> "declare", had_output |-> FALSE]
        /\ UNCHANGED <<combineVars, predictVars, appVars, callVars>>

Run ==
    \E after \in run(expert_system) :
        /\ expert_system' = after
        /\ last_call' = [op |-> "run", had_output |-> FALSE]
        /\ UNCHANGED <<combineVars, predictVars, appVars, callVars>>

Next == Reset \/ Declare \/ Run

Spec == Init /\ [][Next]_vars

----------------------------------------------------------------------------
(* The combiner as a function of its arguments: the arguments are drawn    *)
(* from bounded sets, CombineCall applies the function.                    *)

HomeName == "Real Madrid"

AwayName == "Sheriff"

\* (recommendation, confidence, probability, rule): what a rule firing of the
\* engine can produce, and the values a caller of the combiner may pass.
RecVariants ==
    { <<"recommended", "high", 75000, "ClearFavoriteHomeWin">>,
      <<"recommended", "medium", 60000, "OffensiveTeamsOver">>,
      <<"recommended", "low", 55000, "BalancedDefensiveTeamsDraw">>,
      <<"recommended", "high", 80000, "External">>,
      <<"not_recommended", "medium", 60000, "External">> }

RuleRec(bet_type, v) ==
    [bet_type       |-> bet_type,
     home_team      |-> HomeName,
     away_team      |-> AwayName,
     recommendation |-> v[1],
     confidence     |-> v[2],
     probability    |-> v[3],
     explanation    |-> "Regla " \o v[4],
     rules_fired    |-> <<v[4]>>]

RuleRecInputs == {RuleRec(bt, v) : bt \in BetTypeSet, v \in RecVariants}

RECURSIVE SeqsUpTo(_, _)
SeqsUpTo(S, n) ==
    IF n = 0 THEN {<<>>}
    ELSE LET shorter == SeqsUpTo(S, n - 1)
         IN  shorter \cup {Append(s, e) : s \in {t \in shorter : Len(t) = n - 1}, e \in S}

BayesEntry(p) ==
    [not_recommended |-> One - p,
     recommended     |-> p,
     confidence      |-> IF p > 70000 THEN "high" ELSE IF p > Half THEN "medium" ELSE "low"]

BayesProbInputs == {20000, 45670, 50000, 60000, 72350, 90000}

BayesPresentInputs ==
    {BetTypeSet, {}} \cup {BetTypeSet \ {bt} : bt \in {"home_win", "over"}}

\* The entry of bet type number k is p for odd k and 1 - p for even k, so that
\* one result holds recommending and non-recommending posteriors.
BayesInputs ==
    { [bt \in present |->
          LET k == CHOOSE i \in 1..Len(bet_types) : bet_types[i] = bt
          IN  BayesEntry(IF k % 2 = 1 THEN p ELSE One - p)]
      : present \in BayesPresentInputs, p \in BayesProbInputs }

CombineInit ==
    /\ rules_recommendations \in SeqsUpTo(RuleRecInputs, MaxRecs)
    /\ bayesian_results \in BayesInputs
    /\ hybrid_results = EmptyDict
    /\ combine_pc = "ready"
    /\ PredictIdle
    /\ EngineIdle
    /\ AppIdle
    /\ CallIdle

CombineCall ==
    /\ combine_pc = "ready"
    /\ hybrid_results' = _combine_recommendations(rules_recommendations, bayesian_results,
                                                  HomeName, AwayName)
    /\ combine_pc' = "done"
    /\ UNCHANGED <<rules_recommendations, bayesian_results, predictVars, engineVars, appVars, callVars>>

CombineNext == CombineCall

SpecCombine == CombineInit /\ [][CombineNext]_vars

----------------------------------------------------------------------------
(* predict as a function of its argument and of the leaves whose inference *)
(* fails.                                                                  *)

\* most leaves whose inference fails in one call
MaxFailing == 1

StrengthInputs == {300, 550, 800}

StyleInputs == {"offensive", "balanced", "defensive", "mixed"}

GoalsInputs == {1000, 2000, 3000}

EvidenceInputs ==
    [home_strength : StrengthInputs, away_strength : StrengthInputs,
     home_style : StyleInputs, away_style : StyleInputs,
     home_goals_tendency : GoalsInputs, away_goals_tendency : GoalsInputs]

RecVariableSet == {rec_variables[i] : i \in 1..Len(rec_variables)}

PredictInit ==
    /\ evidence \in EvidenceInputs
    /\ failing \in {f \in SUBSET RecVariableSet : Cardinality(f) <= MaxFailing}
    /\ recommendations = EmptyDict
    /\ predict_pc = "ready"
    /\ CombineIdle
    /\ EngineIdle
    /\ AppIdle
    /\ CallIdle

PredictCall ==
    /\ predict_pc = "ready"
    /\ LET out == predict(evidence, failing)
       IN  /\ recommendations' = out.recommendations
           /\ predict_pc' = out.status
    /\ UNCHANGED <<evidence, failing, combineVars, engineVars, appVars, callVars>>

PredictNext == PredictCall

SpecPredict == PredictInit /\ [][PredictNext]_vars

----------------------------------------------------------------------------
(* main.py: BettingExpertApp.analyze_matchup_hybrid, called one call after *)
(* the other on one application instance.                                  *)

\* most calls of analyze_matchup_hybrid in one behaviour
MaxCalls == 2

Fixtures == {fx \in available_teams \X available_teams : fx[1] # fx[2]}

\* the fixtures asked for, one after the other
AppFixtures ==
    {<<"Real Madrid", "Sheriff">>, <<"Sheriff", "Real Madrid">>,
     <<"Atletico", "Juventus">>, <<"Real Madrid", "Atletico">>,
     <<"Porto", "Ajax">>, <<"Ajax", "Atletico">>, <<"Real Madrid", "Bayern">>}

\* get_team_fact's effect on team_facts_cache
Cached(cache, team_name) ==
    IF team_name \in DOMAIN cache THEN cache
    ELSE Put(cache, team_name, from_team_summary(create_team_summary(team_name)))

\* steps 3 to 5 of analyze_matchup_hybrid: reset, then the eight declares
RECURSIVE DeclareAll(_, _)
DeclareAll(es, fact_list) ==
    IF fact_list = <<>> THEN es
    ELSE DeclareAll(declare(es, Head(fact_list)), Tail(fact_list))

FixtureFacts(home_team, away_team, home_fact, away_fact) ==
    <<home_fact, away_fact,
      create_matchup_fact(home_team, away_team, home_fact, away_fact)>>
    \o [i \in 1..Len(bet_types) |->
          BetType_create(bet_types[i], home_team, away_team,
                         IF bet_types[i] \in {"over", "under"} THEN 2500 ELSE NoThreshold)]

\* step 8: the evidence handed to the network
EvidenceOf(home_fact, away_fact) ==
    [home_strength       |-> home_fact.overall_strength,
     away_strength       |-> away_fact.overall_strength,
     home_style          |-> home_fact.team_style,
     away_style          |-> away_fact.team_style,
     home_goals_tendency |-> home_fact.goals_per_match,
     away_goals_tendency |-> away_fact.goals_per_match]

\* steps 7 to 10 and the returned dict, given the engine after run()
ResultOf(es, home_team, away_team, home_fact, away_fact) ==
    LET rules_recs == get_recommendations(es)
        bayes      == predict(EvidenceOf(home_fact, away_fact), {}).recommendations
    IN  [matchup                |-> home_team \o " vs " \o away_team,
         rules_recommendations  |-> rules_recs,
         explanations           |-> get_explanations(es),
         rules_summary          |-> get_rules_fired_summary(es),
         bayesian_results       |-> bayes,
         hybrid_recommendations |->
             _combine_recommendations(rules_recs, bayes, home_team, away_team)]

analyze_matchup_hybrid(home_team, away_team) ==
    LET cache     == Cached(Cached(team_facts_cache, home_team), away_team)
        home_fact == cache[home_team]
        away_fact == cache[away_team]
        fed       == DeclareAll(reset(expert_system),
                                FixtureFacts(home_team, away_team, home_fact, away_fact))
    IN  \E after \in run(fed) :
            /\ team_facts_cache' = cache
            /\ expert_system' = after
            /\ results' = Append(results,
                                 ResultOf(after, home_team, away_team, home_fact, away_fact))

AppInit ==
    /\ team_facts_cache = EmptyDict
    /\ results = <<>>
    /\ threads = EmptyDict
    /\ context = NewContext
    /\ expert_system = NewEngine
    /\ last_call = NoCall
    /\ CombineIdle
    /\ PredictIdle
    /\ CallIdle

Analyze ==
    \E fx \in AppFixtures :
        /\ Len(results) < MaxCalls
        /\ analyze_matchup_hybrid(fx[1], fx[2])
        /\ UNCHANGED <<last_call, threads, context, combineVars, predictVars, callVars>>

AppNext == Analyze

SpecApp == AppInit /\ [][AppNext]_vars

----------------------------------------------------------------------------
(* app.py: load_betting_app is cached with st.cache_resource, so every     *)
(* session of the web shell calls analyze_matchup_hybrid on the same       *)
(* BettingExpertApp and the same expert_system.  Two sessions analyse a    *)
(* fixture each; their statements interleave.                              *)

Sessions == {1, 2}

\* the fixtures the two sessions ask for: unrelated matches
SessionFixtures ==
    {<<fx1, fx2>> \in
        {<<"Sheriff", "Real Madrid">>, <<"Real Madrid", "Sheriff">>}
            \X {<<"Porto", "Ajax">>, <<"Ajax", "Porto">>} : TRUE}

FactsOf(session) ==
    FixtureFacts(session.home_team, session.away_team,
                 team_facts_cache[session.home_team],
                 team_facts_cache[session.away_team])

ConcInit ==
    /\ \E fxs \in SessionFixtures :
          threads = [t \in Sessions |->
                        [pc |-> "facts", home_team |-> fxs[t][1],
                         away_team |-> fxs[t][2], declared |-> 0]]
    /\ team_facts_cache = EmptyDict
    /\ results = <<>>
    /\ context = NewContext
    /\ expert_system = NewEngine
    /\ last_call = NoCall
    /\ CombineIdle
    /\ PredictIdle
    /\ CallIdle

\* steps 1 and 2: the team facts, through the shared cache
T_Facts(t) ==
    /\ threads[t].pc = "facts"
    /\ team_facts_cache' =
           Cached(Cached(team_facts_cache, threads[t].home_team), threads[t].away_team)
    /\ threads' = [threads EXCEPT ![t].pc = "reset"]
    /\ UNCHANGED <<results, context, engineVars, combineVars, predictVars, callVars>>

\* step 3
T_Reset(t) ==
    /\ threads[t].pc = "reset"
    /\ expert_system' = reset(expert_system)
    /\ threads' = [threads EXCEPT ![t].pc = "declare"]
    /\ UNCHANGED <<team_facts_cache, results, context, last_call, combineVars, predictVars, callVars>>

\* steps 4 and 5: one declare
T_Declare(t) ==
    /\ threads[t].pc = "declare"
    /\ LET fact_list == FactsOf(threads[t])
           k         == threads[t].declared + 1
       IN  /\ expert_system' = declare(expert_system, fact_list[k])
           /\ threads' = [threads EXCEPT ![t].declared = k,
                                         ![t].pc = IF k = Len(fact_list)
                                                   THEN "run" ELSE "declare"]
    /\ UNCHANGED <<team_facts_cache, results, context, last_call, combineVars, predictVars, callVars>>

\* step 6
T_Run(t) ==
    /\ threads[t].pc = "run"
    /\ \E after \in run(expert_system) : expert_system' = after
    /\ threads' = [threads EXCEPT ![t].pc = "collect"]
    /\ UNCHANGED <<team_facts_cache, results, context, last_call, combineVars, predictVars, callVars>>

\* steps 7 to 10 and the return
T_Collect(t) ==
    /\ threads[t].pc = "collect"
    /\ results' = Append(results,
                         ResultOf(expert_system, threads[t].home_team, threads[t].away_team,
                                  team_facts_cache[threads[t].home_team],
                                  team_facts_cache[threads[t].away_team]))
    /\ threads' = [threads EXCEPT ![t].pc = "done"]
    /\ UNCHANGED <<team_facts_cache, context, engineVars, combineVars, predictVars, callVars>>

ConcNext ==
    \E t \in Sessions :
        \/ T_Facts(t)
        \/ T_Reset(t)
        \/ T_Declare(t)
        \/ T_Run(t)
        \/ T_Collect(t)

SpecConc == ConcInit /\ [][ConcNext]_vars

----------------------------------------------------------------------------
(* The rules exercised as the unit tests do: a MatchupFact written by hand, *)
(* the two TeamFacts and one BetType are declared on a fresh engine, then   *)
(* run() is called.                                                        *)

MarginInputs == {0, 100, 150, 151, 180, 250, 251, 350}

FavoriteInputs == {"", "Real Madrid", "Sheriff", "Getafe"}

\* a MatchupFact of Real Madrid at home to Sheriff with the given favourite
HandMatchup(clear_favorite, overall_margin) ==
    [kind                |-> "MatchupFact",
     home_team           |-> "Real Madrid",
     away_team           |-> "Sheriff",
     attacking_advantage |-> "Real Madrid",
     attacking_margin    |-> 400,
     defensive_advantage |-> "Real Madrid",
     defensive_margin    |-> 400,
     overall_advantage   |-> clear_favorite,
     overall_margin      |-> overall_margin,
     clear_favorite      |-> clear_favorite,
     match_type          |-> "attack_focused"]

BetInputs ==
    {BetType_create("home_win", "Real Madrid", "Sheriff", NoThreshold),
     BetType_create("home_win", "Getafe", "Sheriff", NoThreshold),
     BetType_create("away_win", "Real Madrid", "Sheriff", NoThreshold)}

RuleInit ==
    /\ \E fav \in FavoriteInputs, margin \in MarginInputs, bet \in BetInputs :
          call = [op |-> "rule_test", matchup |-> HandMatchup(fav, margin), bet |-> bet]
    /\ returned = NotReturned
    /\ EngineIdle
    /\ CombineIdle
    /\ PredictIdle
    /\ AppIdle

RuleDeclare ==
    /\ last_call.op = "none"
    /\ expert_system' =
           DeclareAll(reset(expert_system),
                      <<get_team_fact("Real Madrid"), get_team_fact("Sheriff"),
                        call.matchup, call.bet>>)
    /\ last_call' = [op |-> "declare", had_output |-> FALSE]
    /\ UNCHANGED <<combineVars, predictVars, appVars, callVars>>

RuleRun ==
    /\ last_call.op = "declare"
    /\ \E after \in run(expert_system) : expert_system' = after
    /\ last_call' = [op |-> "run", had_output |-> FALSE]
    /\ UNCHANGED <<combineVars, predictVars, appVars, callVars>>

RuleNext == RuleDeclare \/ RuleRun

SpecRule == RuleInit /\ [][RuleNext]_vars

----------------------------------------------------------------------------
(* The MatchOutcome table as a function of the parent states: the states   *)
(* are drawn from the four parents' ranges, CpdCall builds the column.     *)

CpdInit ==
    /\ \E hs \in States3, aws \in States3, hst \in States3, ast \in States3 :
          call = [op |-> "_create_match_outcome_cpd",
                  hs |-> hs, aws |-> aws, hst |-> hst, ast |-> ast]
    /\ returned = NotReturned
    /\ EngineIdle
    /\ CombineIdle
    /\ PredictIdle
    /\ AppIdle

CpdCall ==
    /\ returned = NotReturned
    /\ returned' = MatchOutcomeColumn(call.hs, call.aws, call.hst, call.ast)
    /\ UNCHANGED <<call, combineVars, predictVars, engineVars, appVars>>

CpdNext == CpdCall

SpecCpd == CpdInit /\ [][CpdNext]_vars

----------------------------------------------------------------------------
(* The fact constructors of knowledge_model.py as functions of their       *)
(* arguments: the arguments are drawn from bounded sets, one action per    *)
(* constructor applies it.                                                 *)

\* a raw summary as create_team_summary lays it out: overall_strength is the
\* mean of the two strengths given
RawSummary(team, attacking_strength, defensive_strength, discipline_rating, team_style) ==
    [team                      |-> team,
     attacking_strength        |-> attacking_strength,
     defensive_strength        |-> defensive_strength,
     overall_strength          |-> (attacking_strength + defensive_strength) \div 2,
     goals_per_match           |-> 1500,
     goals_conceded_per_match  |-> 1000,
     goal_difference_per_match |-> 500,
     discipline_rating         |-> discipline_rating,
     team_style                |-> team_style,
     cleansheet_rate           |-> 300]

Without(d, key) == [k \in DOMAIN d \ {key} |-> d[k]]

\* strengths and ratings supplied to from_team_summary, some outside [0, 1]
RawStrengthInputs == {-200, 0, 400, 1000, 1400}

RawDisciplineInputs == {-100, 300, 1500}

SummaryInputs ==
    LET full == {RawSummary("Liverpool", att, def, disc, "balanced") :
                     att \in RawStrengthInputs, def \in RawStrengthInputs,
                     disc \in RawDisciplineInputs}
    IN  full \cup {Without(summary, key) :
                      summary \in full,
                      key \in required_fields \cup {"discipline_rating"}}

\* the TeamFacts handed to create_matchup_fact
ProfileStyles == {"offensive", "balanced", "defensive", "mixed"}

ProfileInputs(team) ==
    {from_team_summary(RawSummary(team, att, def, 700, style)) :
         att \in {300, 500, 700, 720}, def \in {300, 600, 900}, style \in ProfileStyles}

BetTypeInputs == valid_types \cup {"btts", "invalid_type", "", "HOME_WIN", "handicap"}

ThresholdInputs == {NoThreshold, 2500, 3500}

\* decision and confidence strings handed to BetRecommendationFact.create
DecisionInputs == {"recommended", "not_recommended", "not_evaluated", "maybe", ""}

ConfidenceInputs == {"high", "medium", "low", "unavailable", "invalid_confidence", "HIGH"}

FactsInit ==
    /\ \/ \E summary \in SummaryInputs :
             call = [op |-> "from_team_summary", team_summary |-> summary]
       \/ \E home_facts \in ProfileInputs("Real Madrid"), away_facts \in ProfileInputs("Getafe") :
             call = [op |-> "create_matchup_fact", home_team |-> "Real Madrid",
                     away_team |-> "Getafe", home_facts |-> home_facts,
                     away_facts |-> away_facts]
       \/ \E bet_type \in BetTypeInputs, threshold \in ThresholdInputs :
             call = [op |-> "BetType.create", bet_type |-> bet_type,
                     home_team |-> "Team A", away_team |-> "Team B",
                     threshold |-> threshold]
       \/ \E recommendation \in DecisionInputs, confidence \in ConfidenceInputs,
             bet_type \in valid_types :
             call = [op |-> "BetRecommendationFact.create", bet_type |-> bet_type,
                     home_team |-> "Real Madrid", away_team |-> "Barcelona",
                     recommendation |-> recommendation, confidence |-> confidence]
    /\ returned = NotReturned
    /\ EngineIdle
    /\ CombineIdle
    /\ PredictIdle
    /\ AppIdle

TeamFactCall ==
    /\ call.op = "from_team_summary"
    /\ returned = NotReturned
    /\ returned' = from_team_summary(call.team_summary)
    /\ UNCHANGED <<call, combineVars, predictVars, engineVars, appVars>>

MatchupCall ==
    /\ call.op = "create_matchup_fact"
    /\ returned = NotReturned
    /\ returned' = create_matchup_fact(call.home_team, call.away_team,
                                       call.home_facts, call.away_facts)
    /\ UNCHANGED <<call, combineVars, predictVars, engineVars, appVars>>

BetTypeCall ==
    /\ call.op = "BetType.create"
    /\ returned = NotReturned
    /\ returned' = BetType_create(call.bet_type, call.home_team, call.away_team,
                                  call.threshold)
    /\ UNCHANGED <<call, combineVars, predictVars, engineVars, appVars>>

RecommendationCall ==
    /\ call.op = "BetRecommendationFact.create"
    /\ returned = NotReturned
    /\ returned' = BetRecommendationFact_create(call.bet_type, call.home_team,
                        call.away_team, call.recommendation, call.confidence,
                        75000, "", <<>>)
    /\ UNCHANGED <<call, combineVars, predictVars, engineVars, appVars>>

FactsNext == TeamFactCall \/ MatchupCall \/ BetTypeCall \/ RecommendationCall

SpecFacts == FactsInit /\ [][FactsNext]_vars

----------------------------------------------------------------------------
(* The engine run on one fixture as the warning test does: two TeamFacts,   *)
(* the MatchupFact that create_matchup_fact builds from them and a set of   *)
(* BetTypes (none, the two win bets, or over and under at one threshold)    *)
(* are declared on a reset engine, then run() is called.                    *)

\* a TeamFact whose overall_strength is the mean of its two strengths
TeamProfile(team, attacking_strength, defensive_strength, goals, discipline_rating, team_style) ==
    from_team_summary(
        [team                      |-> team,
         attacking_strength        |-> attacking_strength,
         defensive_strength        |-> defensive_strength,
         overall_strength          |-> (attacking_strength + defensive_strength) \div 2,
         goals_per_match           |-> goals[1],
         goals_conceded_per_match  |-> goals[2],
         goal_difference_per_match |-> goals[1] - goals[2],
         discipline_rating         |-> discipline_rating,
         team_style                |-> team_style,
         cleansheet_rate           |-> 300])

\* strengths (even, so that the mean is exact) on both sides of the rules'
\* limits 0.45, 0.59, 0.72 and 0.32, 0.44
AttackInputs == {440, 600, 740}

DefenseInputs == {300, 460, 700}

\* goals scored and conceded per match
ScoringInputs == {<<1500, 1000>>, <<2200, 2000>>}

\* discipline ratings below, at and above the warning's limit 0.52
DisciplineInputs == {500, 520, 760}

ProfileStyleInputs == {"offensive", "defensive"}

TeamProfiles(team) ==
    {TeamProfile(team, att, def, goals, disc, style) :
         att \in AttackInputs, def \in DefenseInputs, goals \in ScoringInputs,
         disc \in DisciplineInputs, style \in ProfileStyleInputs}

\* the BetTypes declared for the fixture
BetSets(home_team, away_team) ==
    { <<>>,
      <<BetType_create("home_win", home_team, away_team, NoThreshold),
        BetType_create("away_win", home_team, away_team, NoThreshold)>>,
      <<BetType_create("over", home_team, away_team, 2500),
        BetType_create("under", home_team, away_team, 2500)>>,
      <<BetType_create("over", home_team, away_team, 3500),
        BetType_create("under", home_team, away_team, 3500)>> }

FixtureInit ==
    /\ \E home_fact \in TeamProfiles("Bayern Munich"), away_fact \in TeamProfiles("Napoli"),
          bets \in BetSets("Bayern Munich", "Napoli") :
          call = [op |-> "fixture", home_fact |-> home_fact, away_fact |-> away_fact,
                  bets |-> bets]
    /\ returned = NotReturned
    /\ EngineIdle
    /\ CombineIdle
    /\ PredictIdle
    /\ AppIdle

FixtureDeclare ==
    /\ call.op = "fixture"
    /\ last_call.op = "none"
    /\ expert_system' =
           DeclareAll(reset(expert_system),
                      <<call.home_fact, call.away_fact,
                        create_matchup_fact(call.home_fact.team, call.away_fact.team,
                                            call.home_fact, call.away_fact)>>
                      \o call.bets)
    /\ last_call' = [op |-> "declare", had_output |-> FALSE]
    /\ UNCHANGED <<combineVars, predictVars, appVars, callVars>>

FixtureRun ==
    /\ call.op = "fixture"
    /\ last_call.op = "declare"
    /\ \E after \in run(expert_system) : expert_system' = after
    /\ last_call' = [op |-> "run", had_output |-> FALSE]
    /\ UNCHANGED <<combineVars, predictVars, appVars, callVars>>

FixtureNext == FixtureDeclare \/ FixtureRun

SpecFixture == FixtureInit /\ [][FixtureNext]_vars

----------------------------------------------------------------------------
(* The evidence conversion as a function of the evidence dict: strengths   *)
(* and goal averages on both sides of the limits, styles inside and        *)
(* outside the style map.                                                  *)

EvidenceInit ==
    /\ \E home_strength \in {0, 399, 400, 550, 699, 700, 1000},
          away_strength \in {399, 700},
          home_style \in {"offensive", "balanced", "defensive", "mixed", "unknown", ""},
          away_style \in {"mixed", "defensive"},
          home_goals_tendency \in {0, 1499, 1500, 2000, 2499, 2500, 4000},
          away_goals_tendency \in {1499, 2500} :
          call = [op |-> "_convert_evidence",
                  evidence |-> [home_strength       |-> home_strength,
                                away_strength       |-> away_strength,
                                home_style          |-> home_style,
                                away_style          |-> away_style,
                                home_goals_tendency |-> home_goals_tendency,
                                away_goals_tendency |-> away_goals_tendency]]
    /\ returned = NotReturned
    /\ EngineIdle
    /\ CombineIdle
    /\ PredictIdle
    /\ AppIdle

EvidenceCall ==
    /\ call.op = "_convert_evidence"
    /\ returned = NotReturned
    /\ returned' = _convert_evidence(call.evidence)
    /\ UNCHANGED <<call, combineVars, predictVars, engineVars, appVars>>

EvidenceNext == EvidenceCall

SpecEvidence == EvidenceInit /\ [][EvidenceNext]_vars

----------------------------------------------------------------------------
(* The conversational shell of main.py.  A message is a sequence of words, *)
(* a team name counting as one word; process_message is applied to one     *)
(* message after the other on the same application.  The messages are of   *)
(* one or two words.                                                       *)

\* most messages of a conversation
MaxTurns == 3

\* self.available_teams: sorted(list(self.processor.team_data.keys()))
sorted_available_teams ==
    <<"Ajax", "Atletico", "Bayern", "Juventus", "Porto", "Real Madrid", "Sheriff">>

\* str.lower on the words that occur
lower(word) ==
    CASE word = "Ajax"        -> "ajax"
      [] word = "Atletico"    -> "atletico"
      [] word = "Bayern"      -> "bayern"
      [] word = "Juventus"    -> "juventus"
      [] word = "Porto"       -> "porto"
      [] word = "Real Madrid" -> "real madrid"
      [] word = "Sheriff"     -> "sheriff"
      [] word = "Hola"        -> "hola"
      [] word = "Analiza"     -> "analiza"
      [] OTHER                -> word

message_lower(message) == [i \in 1..Len(message) |-> lower(message[i])]

\* re.findall(r'\b\w+\b', text) on one lower-case word or name
words_of(text) == IF text = "real madrid" THEN {"real", "madrid"} ELSE {text}

\* the words shorter than four letters
short_words == {"1", "2", "vs", "hi", "ver", "fin", "bye"}

\* substring in message_lower, for a word or a whole name
Mentions(message, text) == \E i \in 1..Len(message) : message_lower(message)[i] = text

\* re.search(r"\b(a|b|...)\b", message) on the lower-case message
SearchOne(message, alternatives) ==
    \E i \in 1..Len(message) : message_lower(message)[i] \in alternatives

\* re.search(r"\b(a|...).+\b(x|...)\b", message) on the lower-case message
SearchTwo(message, first, second) ==
    \E i \in 1..Len(message), j \in 1..Len(message) :
        /\ i < j
        /\ message_lower(message)[i] \in first
        /\ message_lower(message)[j] \in second

RECURSIVE Filter(_, _)
Filter(seq, keep) ==
    IF seq = <<>> THEN <<>>
    ELSE (IF Head(seq) \in keep THEN <<Head(seq)>> ELSE <<>>) \o Filter(Tail(seq), keep)

\* extract_teams: the teams whose whole name is in the message, in the
\* order of available_teams; if there is none, the teams one of whose
\* words, of four letters or more, is a word of the message
extract_teams(message) ==
    LET whole == {team \in available_teams : Mentions(message, lower(team))}
        words == UNION {words_of(message_lower(message)[i]) : i \in 1..Len(message)}
        part  == {team \in available_teams :
                     \E word \in words :
                         word \notin short_words /\ word \in words_of(lower(team))}
    IN  IF sorted_available_teams = <<>> THEN <<>>
        ELSE IF whole # {} THEN Filter(sorted_available_teams, whole)
        ELSE Filter(sorted_available_teams, part)

\* detect_intent: the first pattern, in the order of the dict, that the
\* message matches; else by the number of teams it mentions
detect_intent(message) ==
    IF SearchOne(message, {"hola", "buenos días", "buenas tardes", "buenas noches",
                           "saludos", "hey", "hi"})
    THEN "greeting"
    ELSE IF SearchOne(message, {"adiós", "chao", "hasta luego", "nos vemos", "salir",
                                "terminar", "fin", "bye", "me voy"})
    THEN "farewell"
    ELSE IF SearchOne(message, {"ayuda", "ayúdame", "help", "qué puedo hacer",
                                "qué puedes hacer", "opciones", "comandos", "instrucciones"})
    THEN "help"
    ELSE IF SearchTwo(message, {"listar", "lista", "mostrar", "ver", "cuáles son", "tienes",
                                "disponibles"},
                      {"equipos", "clubes", "conjunto"})
    THEN "list_teams"
    ELSE IF SearchTwo(message, {"estadística", "estadísticas", "datos", "información"},
                      {"equipo", "club"})
    THEN "team_info"
    ELSE IF SearchOne(message, {"análisis", "analizar", "analiza", "comparar", "compara",
                                "partido", "enfrentamiento", "juegan", "versus", "vs",
                                "contra", "recomendación", "recomendaciones"})
    THEN "match_analysis"
    ELSE IF Len(extract_teams(message)) >= 2 THEN "match_analysis"
    ELSE IF Len(extract_teams(message)) = 1 THEN "team_info"
    ELSE "unknown"

\* What a handler leaves: the context, the responses it may return (the
\* greeting and the farewell are drawn at random), and the fixture it hands
\* to analyze_matchup_hybrid, if any.
Handled(ctx, responses) == [context |-> ctx, responses |-> responses, analyze |-> <<>>]

Analysis(ctx, home_team, away_team) ==
    [context   |-> [ctx EXCEPT !.last_teams = <<home_team, away_team>>],
     responses |-> {},
     analyze   |-> <<home_team, away_team>>]

Response(kind) == [kind |-> kind]

_handle_match_analysis(ctx, message) ==
    LET teams == extract_teams(message)
    IN  IF Len(teams) < 2
        THEN IF teams # <<>>
             THEN Handled([ctx EXCEPT !.last_teams = teams,
                                      !.follow_up_question = "second_team"],
                          {[kind |-> "ask_second_team", team |-> teams[1]]})
             ELSE Handled([ctx EXCEPT !.follow_up_question = "both_teams"],
                          {Response("ask_both_teams")})
        ELSE Handled([ctx EXCEPT !.last_teams = teams,
                                 !.follow_up_question = "home_away_selection"],
                     {[kind |-> "ask_home_team", first |-> teams[1], second |-> teams[2]]})

_handle_team_info(ctx, message) ==
    LET teams == extract_teams(message)
    IN  IF teams = <<>>
        THEN Handled([ctx EXCEPT !.follow_up_question = "team_name"],
                     {Response("ask_team_name")})
        ELSE Handled([ctx EXCEPT !.last_teams = <<teams[1]>>],
                     {[kind |-> "team_stats", team |-> teams[1]]})

\* _handle_follow_up, question 'home_away_selection'; ctx has the question
\* reset already.  teams[1] of a one-element list raises IndexError.
home_away_selection(ctx, message) ==
    LET teams == ctx.last_teams
    IN  IF Len(teams) < 2 THEN Handled(ctx, {Response("IndexError")})
        ELSE IF Mentions(message, "1") \/ Mentions(message, lower(teams[1]))
        THEN Analysis(ctx, teams[1], teams[2])
        ELSE IF Mentions(message, "2") \/ Mentions(message, lower(teams[2]))
        THEN Analysis(ctx, teams[2], teams[1])
        ELSE Handled([ctx EXCEPT !.follow_up_question = "home_away_selection"],
                     {[kind |-> "ask_home_team_again", first |-> teams[1],
                       second |-> teams[2]]})

_handle_follow_up(ctx, message) ==
    LET question_type == ctx.follow_up_question
        cleared       == [ctx EXCEPT !.follow_up_question = NoQuestion]
        teams         == extract_teams(message)
    IN  CASE question_type = "home_away_selection" ->
               home_away_selection(cleared, message)
          [] question_type = "second_team" ->
               IF teams # <<>>
               THEN (IF cleared.last_teams = <<>>
                     THEN Handled(cleared, {Response("IndexError")})
                     ELSE Analysis(cleared, cleared.last_teams[1], teams[1]))
               ELSE Handled(cleared, {Response("no_team_identified")})
          [] question_type = "both_teams" ->
               IF Len(teams) >= 2
               THEN Analysis(cleared, teams[1], teams[2])
               ELSE Handled(cleared, {Response("need_two_teams")})
          [] question_type = "team_name" ->
               IF teams # <<>>
               THEN Handled([cleared EXCEPT !.last_teams = <<teams[1]>>],
                            {[kind |-> "team_stats", team |-> teams[1]]})
               ELSE Handled(cleared, {Response("no_valid_team")})
          [] OTHER -> Handled(cleared, {Response("not_understood")})

\* process_message: the intent is detected first and stored; a pending
\* follow-up question is looked at only when no intent was detected
process_message(ctx, message) ==
    LET intent == detect_intent(message)
        noted  == [ctx EXCEPT !.current_intent = intent]
    IN  CASE intent = "greeting" ->
               Handled(noted, {[kind |-> "greeting", choice |-> c] : c \in 1..3})
          [] intent = "farewell" ->
               Handled(noted, {[kind |-> "farewell", choice |-> c] : c \in 1..3})
          [] intent = "help" -> Handled(noted, {Response("help")})
          [] intent = "list_teams" -> Handled(noted, {Response("list_teams")})
          [] intent = "match_analysis" -> _handle_match_analysis(noted, message)
          [] intent = "team_info" -> _handle_team_info(noted, message)
          [] OTHER ->
               IF noted.follow_up_question # NoQuestion
               THEN _handle_follow_up(noted, message)
               ELSE Handled(noted, {Response("unknown")})

\* the words the user types
Vocabulary ==
    {"Hola", "lista", "equipos", "Analiza", "1", "2", "local", "madrid",
     "Real Madrid", "Porto", "ajax"}

Messages ==
    {<<word>> : word \in Vocabulary}
        \cup {<<first, second>> : first \in Vocabulary, second \in Vocabulary}

Turn == IF call.op = "process_message" THEN call.turn ELSE 0

ShellInit ==
    /\ team_facts_cache = EmptyDict
    /\ results = <<>>
    /\ threads = EmptyDict
    /\ context = NewContext
    /\ expert_system = NewEngine
    /\ last_call = NoCall
    /\ CombineIdle
    /\ PredictIdle
    /\ CallIdle

ProcessMessage ==
    /\ Turn < MaxTurns
    /\ \E message \in Messages :
          LET handled == process_message(context, message)
          IN  /\ call' = [op |-> "process_message", message |-> message, turn |-> Turn + 1]
              /\ IF handled.analyze # <<>>
                 THEN /\ analyze_matchup_hybrid(handled.analyze[1], handled.analyze[2])
                      /\ context' = [handled.context EXCEPT
                                        !.last_analysis = results'[Len(results')]]
                      /\ returned' = [kind    |-> "match_analysis",
                                      matchup |-> results'[Len(results')].matchup]
                 ELSE /\ context' = handled.context
                      /\ \E response \in handled.responses : returned' = response
                      /\ UNCHANGED <<team_facts_cache, results, expert_system>>
    /\ UNCHANGED <<last_call, threads, combineVars, predictVars>>

ShellNext == ProcessMessage

SpecShell == ShellInit /\ [][ShellNext]_vars

----------------------------------------------------------------------------
(* Properties of the combiner, checked under SpecCombine *)

CombineDone == combine_pc = "done"

\* the list without the recommendations of bet_type that follow the first one
OnlyFirst(recs, bet_type) ==
    LET idx  == {i \in 1..Len(recs) : recs[i].bet_type = bet_type}
        keep == {i \in 1..Len(recs) : i \notin idx \/ (\A j \in idx : i <= j)}
        RECURSIVE Build(_)
        Build(i) == IF i > Len(recs) THEN <<>>
                    ELSE IF i \in keep THEN <<recs[i]>> \o Build(i + 1)
                    ELSE Build(i + 1)
    IN  Build(1)

\* the first recommendation of bet_type in list order (there is one)
FirstOf(recs, bet_type) ==
    recs[CHOOSE i \in 1..Len(recs) :
            /\ recs[i].bet_type = bet_type
            /\ \A j \in 1..(i - 1) : recs[j].bet_type # bet_type]

RuleExists(bet_type) ==
    \E i \in 1..Len(rules_recommendations) : rules_recommendations[i].bet_type = bet_type

BayesExists(bet_type) == bet_type \in DOMAIN bayesian_results

Agree(bet_type) ==
    (FirstOf(rules_recommendations, bet_type).recommendation = "recommended")
        = (bayesian_results[bet_type].recommended > Half)

\* C1: for each bet type the combiner uses the first rule recommendation in
\* list order whose bet_type matches: the hybrid entry of a bet type equals the
\* entry obtained from the list without the later recommendations of that type.
C1_FirstRecommendationWins ==
    CombineDone =>
        \A bt \in BetTypeSet :
            /\ hybrid_results[bt] =
                 _combine_recommendations(OnlyFirst(rules_recommendations, bt),
                                          bayesian_results, HomeName, AwayName)[bt]
            /\ RuleExists(bt) =>
                 hybrid_results[bt].rules_fired = FirstOf(rules_recommendations, bt).rules_fired

C1_Witness ==
    /\ CombineDone
    /\ \E i, j \in 1..Len(rules_recommendations) :
         /\ i < j
         /\ rules_recommendations[i].bet_type = rules_recommendations[j].bet_type
         /\ rules_recommendations[i].confidence # rules_recommendations[j].confidence
         /\ rules_recommendations[i].rules_fired # rules_recommendations[j].rules_fired
         /\ \A k \in 1..(i - 1) :
              rules_recommendations[k].bet_type # rules_recommendations[i].bet_type
         /\ hybrid_results[rules_recommendations[i].bet_type].rules_fired
              = rules_recommendations[i].rules_fired

\* C2: when the rule recommendation and the Bayesian result of a bet type both
\* exist and agree, the hybrid probability is 0.6 * rule.probability +
\* 0.4 * bayes.recommended, the confidence and the explanation are the rule's
\* and concordance is high.
C2_AgreeWeightedAverage ==
    CombineDone =>
        \A bt \in BetTypeSet :
            (RuleExists(bt) /\ BayesExists(bt) /\ Agree(bt)) =>
                LET r == FirstOf(rules_recommendations, bt)
                    h == hybrid_results[bt]
                IN  /\ 10 * h.probability = 6 * r.probability + 4 * bayesian_results[bt].recommended
                    /\ h.confidence = r.confidence
                    /\ h.explanation = r.explanation
                    /\ "concordance" \in DOMAIN h
                    /\ h.concordance = "high"

C2_Witness ==
    /\ CombineDone
    /\ \E bt \in BetTypeSet :
         /\ RuleExists(bt) /\ BayesExists(bt) /\ Agree(bt)
         /\ FirstOf(rules_recommendations, bt).probability = 80000
         /\ bayesian_results[bt].recommended = 60000
         /\ hybrid_results[bt].probability = 72000
         /\ hybrid_results[bt].concordance = "high"

\* the texts a probability x may be printed as with one decimal of a percent:
\* the one or two values nearest to x
PctTexts(x) ==
    {PctText(t) : t \in {u \in {x \div 100, x \div 100 + 1} :
                            100 * u - x <= 50 /\ x - 100 * u <= 50}}

C4_BayesianOnly ==
    CombineDone =>
        \A bt \in BetTypeSet :
            (~RuleExists(bt) /\ BayesExists(bt)) =>
                LET b == bayesian_results[bt].recommended
                    h == hybrid_results[bt]
                IN  /\ (h.recommendation = "recommended") = (b > Half)
                    /\ h.recommendation \in {"recommended", "not_recommended"}
                    /\ h.probability = (IF b > Half THEN b ELSE One - b)
                    /\ h.probability >= Half
                    /\ h.confidence = (IF h.probability > 70000 THEN "high"
                                       ELSE IF h.probability > 60000 THEN "medium"
                                       ELSE "low")
                    /\ "source" \in DOMAIN h
                    /\ h.source = "bayesian_only"

C4_Witness ==
    /\ CombineDone
    /\ \E bt \in BetTypeSet :
         /\ ~RuleExists(bt) /\ BayesExists(bt)
         /\ bayesian_results[bt].recommended = 20000
         /\ hybrid_results[bt].recommendation = "not_recommended"
         /\ hybrid_results[bt].probability = 80000
         /\ hybrid_results[bt].confidence = "high"

\* C5: a bet type with neither a rule recommendation nor a Bayesian result
\* gets the entry not_evaluated / 0.5 / unavailable, and the result has an
\* entry for each of the five bet types.
C5_NeitherIsNotEvaluated ==
    CombineDone =>
        /\ DOMAIN hybrid_results = BetTypeSet
        /\ \A bt \in BetTypeSet :
             (~RuleExists(bt) /\ ~BayesExists(bt)) =>
                 /\ hybrid_results[bt].recommendation = "not_evaluated"
                 /\ hybrid_results[bt].probability = Half
                 /\ hybrid_results[bt].confidence = "unavailable"

C5_Witness ==
    /\ CombineDone
    /\ \E bt, other \in BetTypeSet :
         /\ ~RuleExists(bt) /\ ~BayesExists(bt)
         /\ hybrid_results[bt].recommendation = "not_evaluated"
         /\ RuleExists(other) /\ BayesExists(other)

----------------------------------------------------------------------------
(* Properties of predict, checked under SpecPredict *)

\* C6: if inference fails for one of the five leaves, predict still returns
\* results for the five bet types: the failed leaf's own bet type maps to the
\* 0.5 / 0.5 / low default and the other four keep their computed posteriors.
C6_LeafFailureIsolated ==
    (predict_pc \in {"returned", "raised"} /\ Cardinality(failing) = 1) =>
        /\ predict_pc = "returned"
        /\ DOMAIN recommendations = BetTypeSet
        /\ \A var \in RecVariableSet :
             recommendations[RecType(var)] =
                 IF var \in failing
                 THEN [not_recommended |-> Half, recommended |-> Half, confidence |-> "low"]
                 ELSE PosteriorEntry(Query(var, _convert_evidence(evidence)))


----------------------------------------------------------------------------
(* Properties of the engine, checked under Spec *)

RECURSIVE SumCounts(_)
SumCounts(counts) ==
    IF DOMAIN counts = {} THEN 0
    ELSE LET name == CHOOSE n \in DOMAIN counts : TRUE
         IN  counts[name] + SumCounts([n \in DOMAIN counts \ {name} |-> counts[n]])

Recommending(agenda) == {act \in agenda : act.rule # "LowDisciplineWarning"}

IsPrefix(s, t) == Len(s) <= Len(t) /\ \A i \in 1..Len(s) : s[i] = t[i]

\* C8: right after reset(), whatever was declared and fired before, the three
\* getters return nothing, and a run() made with no new fact declared leaves
\* the list of recommendations empty.
C8_ResetClearsOutput ==
    last_call.op = "reset" =>
        /\ get_recommendations(expert_system) = <<>>
        /\ DOMAIN get_explanations(expert_system) = {}
        /\ DOMAIN get_rules_fired_summary(expert_system) = {}
        /\ \A after \in run(expert_system) : get_recommendations(after) = <<>>

\* a reset() made on an engine that held recommendations and warnings
C8_Witness ==
    /\ last_call.op = "reset"
    /\ last_call.had_output
    /\ expert_system.recommendations = <<>>

\* C10 (states): the recommendations retrievable are as many as the rule
\* firings counted, each names the one rule that produced it, a rule's count
\* is the number of recommendations naming it, and the bet type of a
\* recommendation is that of its rule.
C10_CountsMatchRecommendations ==
    LET recs   == get_recommendations(expert_system)
        counts == get_rules_fired_summary(expert_system)
    IN  /\ Len(recs) = SumCounts(counts)
        /\ \A i \in 1..Len(recs) :
              /\ Len(recs[i].rules_fired) = 1
              /\ recs[i].rules_fired[1] \in DOMAIN counts
              /\ \E r \in RuleTable : /\ r.name = recs[i].rules_fired[1]
                                      /\ r.bet = recs[i].bet_type
        /\ \A name \in DOMAIN counts :
              counts[name] = Cardinality({i \in 1..Len(recs) : recs[i].rules_fired = <<name>>})

\* C10 (steps): a run() appends one recommendation for each non-warning
\* activation it fires, and the recommendations already recorded stay, in
\* place, through every declare() and run(); only reset() removes them.
C10_StepAppendsOnePerFiring ==
    /\ last_call'.op = "run" =>
          /\ Len(expert_system'.recommendations) =
                 Len(expert_system.recommendations)
                     + Cardinality(Recommending(expert_system.agenda))
          /\ IsPrefix(expert_system.recommendations, expert_system'.recommendations)
    /\ last_call'.op = "declare" =>
          expert_system'.recommendations = expert_system.recommendations

\* C10: every firing of a non-warning rule appends exactly one Recommendation
\* that stays retrievable until reset(); lengths, counts and rule names agree
\* in every state, and several recommendations of one bet type are all kept.
C10_EveryFiringRecorded ==
    []C10_CountsMatchRecommendations /\ [][C10_StepAppendsOnePerFiring]_vars

\* a run() has recorded two recommendations of the same bet type, by two rules
C10_Witness ==
    /\ last_call.op = "run"
    /\ \E i, j \in 1..Len(expert_system.recommendations) :
          /\ i < j
          /\ expert_system.recommendations[i].bet_type
                 = expert_system.recommendations[j].bet_type
          /\ expert_system.recommendations[i].rules_fired
                 # expert_system.recommendations[j].rules_fired

----------------------------------------------------------------------------
(* Properties of analyze_matchup_hybrid, checked under SpecApp *)

\* the engine as constructed and reset, before any fact of an analysis
FreshEngine ==
    [facts |-> {InitialFact}, agenda |-> {}, recommendations |-> <<>>,
     explanations |-> EmptyDict, rules_fired_count |-> EmptyDict]

\* what the rule engine yields for a fixture analysed on an engine that has
\* seen nothing else: one triple per order of firing
Alone(home_team, away_team) ==
    LET home_fact == from_team_summary(create_team_summary(home_team))
        away_fact == from_team_summary(create_team_summary(away_team))
        fed == DeclareAll(FreshEngine,
                          FixtureFacts(home_team, away_team, home_fact, away_fact))
    IN  {[rules_recommendations |-> get_recommendations(after),
          explanations          |-> get_explanations(after),
          rules_summary         |-> get_rules_fired_summary(after)] : after \in run(fed)}

RuleOutput(result) ==
    [rules_recommendations |-> result.rules_recommendations,
     explanations          |-> result.explanations,
     rules_summary         |-> result.rules_summary]

FixtureOf(result) ==
    CHOOSE fx \in Fixtures : result.matchup = fx[1] \o " vs " \o fx[2]

\* C7: whatever calls came before, the recommendations, warnings and rule
\* counts the latest call returns are those of the latest fixture analysed on
\* its own, and every recommendation returned is about the latest fixture.
C7_LatestAnalysisOnly ==
    results # <<>> =>
        LET latest == results[Len(results)]
            fx     == FixtureOf(latest)
        IN  /\ RuleOutput(latest) \in Alone(fx[1], fx[2])
            /\ \A i \in 1..Len(latest.rules_recommendations) :
                  /\ latest.rules_recommendations[i].home_team = fx[1]
                  /\ latest.rules_recommendations[i].away_team = fx[2]

\* a second call, for another fixture, after a call that returned
\* recommendations, a warning and counts
C7_Witness ==
    /\ Len(results) >= 2
    /\ results[Len(results) - 1].matchup # results[Len(results)].matchup
    /\ results[Len(results) - 1].rules_recommendations # <<>>
    /\ DOMAIN results[Len(results) - 1].explanations # {}
    /\ DOMAIN results[Len(results) - 1].rules_summary # {}
    /\ results[Len(results)].rules_recommendations # <<>>

----------------------------------------------------------------------------
(* Properties of concurrent analyses, checked under SpecConc *)

----------------------------------------------------------------------------
(* Properties of one run of the engine on the facts of one fixture,        *)
(* checked under SpecApp                                                   *)

AllRecommendations ==
    {get_recommendations(expert_system)[i] : i \in 1..Len(expert_system.recommendations)}
        \cup UNION {{results[k].rules_recommendations[i] :
                        i \in 1..Len(results[k].rules_recommendations)} :
                    k \in 1..Len(results)}

\* C12: every recommendation of the rule engine has the decision
\* 'recommended'; none has 'not_recommended'.
C12_OnlyRecommended ==
    \A rec \in AllRecommendations : rec.recommendation = "recommended"

\* an analysis that returned recommendations for draw, over and under
C12_Witness ==
    /\ results # <<>>
    /\ \A bt \in {"draw", "over", "under"} :
          \E i \in 1..Len(results[Len(results)].rules_recommendations) :
              /\ results[Len(results)].rules_recommendations[i].bet_type = bt
              /\ results[Len(results)].rules_recommendations[i].recommendation = "recommended"

\* C13: the probability of every recommendation of the rule engine is given
\* by its confidence alone: 0.75 for high, 0.60 for medium, 0.55 for low.
C13_ProbabilityFromConfidence ==
    \A rec \in AllRecommendations :
        /\ rec.confidence \in {"high", "medium", "low"}
        /\ rec.confidence = "high"   => rec.probability = 75000
        /\ rec.confidence = "medium" => rec.probability = 60000
        /\ rec.confidence = "low"    => rec.probability = 55000

\* one analysis returned a recommendation of each confidence
C13_Witness ==
    \E k \in 1..Len(results) :
        \A c \in {"high", "medium", "low"} :
            \E i \in 1..Len(results[k].rules_recommendations) :
                results[k].rules_recommendations[i].confidence = c

----------------------------------------------------------------------------
(* Properties of single rules, checked under SpecRule *)

FiredBy(rule) ==
    {rec \in {get_recommendations(expert_system)[i] :
                 i \in 1..Len(expert_system.recommendations)} :
        rec.rules_fired = <<rule>>}

\* C14: after run(), with a home_win bet for the matchup's home team declared,
\* ClearFavoriteHomeWin has fired iff clear_favorite is non-empty and is the
\* home team; its recommendation is high / 0.75 when overall_margin > 0.25
\* and medium / 0.60 otherwise.
C14_ClearFavoriteHomeWin ==
    (/\ last_call.op = "run"
     /\ call.bet.bet_type = "home_win"
     /\ call.bet.home_team = call.matchup.home_team)
    => /\ FiredBy("ClearFavoriteHomeWin") # {}
             <=> /\ call.matchup.clear_favorite # ""
                 /\ call.matchup.clear_favorite = call.matchup.home_team
       /\ \A rec \in FiredBy("ClearFavoriteHomeWin") :
             /\ rec.bet_type = "home_win"
             /\ rec.confidence = IF call.matchup.overall_margin > 250
                                 THEN "high" ELSE "medium"
             /\ rec.probability = IF call.matchup.overall_margin > 250
                                  THEN 75000 ELSE 60000

\* the rule fired on a margin of 0.18: medium, 0.60
C14_Witness ==
    /\ last_call.op = "run"
    /\ call.matchup.overall_margin = 180
    /\ call.matchup.clear_favorite = "Real Madrid"
    /\ \E rec \in FiredBy("ClearFavoriteHomeWin") :
          rec.confidence = "medium" /\ rec.probability = 60000

----------------------------------------------------------------------------
(* Properties of the MatchOutcome table, checked under SpecCpd *)

\* C15: in every column of the MatchOutcome table the three probabilities
\* sum to 1, P(home_win) is in [0.1, 0.8], P(away_win) in [0.1, 0.6] and
\* P(draw) is at least 0.1.  (A probability is p / den; the bounds are
\* compared after multiplying out.)
C15_MatchOutcomeColumnBounds ==
    returned # NotReturned =>
        LET p_home == returned.p[1]
            p_draw == returned.p[2]
            p_away == returned.p[3]
            den    == returned.den
        IN  /\ p_home + p_draw + p_away = den
            /\ 10 * p_home >= den /\ 10 * p_home <= 8 * den
            /\ 10 * p_away >= den /\ 10 * p_away <= 6 * den
            /\ 10 * p_draw >= den

----------------------------------------------------------------------------
(* Properties of the fact constructors, checked under SpecFacts *)

MatchupReturned == call.op = "create_matchup_fact" /\ returned # NotReturned

\* C16: in every MatchupFact built by create_matchup_fact, clear_favorite is
\* non-empty iff overall_margin > 0.15, and then it is overall_advantage, the
\* team of the larger overall_strength.
C16_ClearFavoriteIffMargin ==
    MatchupReturned =>
        /\ returned.clear_favorite # "" <=> returned.overall_margin > 150
        /\ returned.clear_favorite # "" =>
              /\ returned.clear_favorite = returned.overall_advantage
              /\ returned.clear_favorite =
                     IF call.home_facts.overall_strength > call.away_facts.overall_strength
                     THEN call.home_team ELSE call.away_team

\* a matchup with a margin of 0.16 and the away team as clear favourite
C16_Witness ==
    /\ MatchupReturned
    /\ returned.overall_margin = 160
    /\ returned.clear_favorite = call.away_team

\* C17: match_type is attack_focused whenever the average attacking strength
\* exceeds the average defensive strength by more than 0.1 or either style is
\* offensive; otherwise defense_focused when the average defensive strength
\* exceeds the average attacking strength by more than 0.1 or both styles are
\* defensive; otherwise balanced.
C17_MatchTypeAttackFirst ==
    MatchupReturned =>
        LET sum_attacking == call.home_facts.attacking_strength
                                 + call.away_facts.attacking_strength
            sum_defensive == call.home_facts.defensive_strength
                                 + call.away_facts.defensive_strength
            attack  == \/ sum_attacking > sum_defensive + 200
                       \/ call.home_facts.team_style = "offensive"
                       \/ call.away_facts.team_style = "offensive"
            defense == \/ sum_defensive > sum_attacking + 200
                       \/ /\ call.home_facts.team_style = "defensive"
                          /\ call.away_facts.team_style = "defensive"
        IN  returned.match_type = IF attack THEN "attack_focused"
                                  ELSE IF defense THEN "defense_focused"
                                  ELSE "balanced"

TeamFactReturned ==
    call.op = "from_team_summary" /\ returned # NotReturned /\ returned # ValueError

\* C18: every TeamFact built from a raw summary has overall_strength equal to
\* (attacking_strength + defensive_strength) / 2, also when a strength
\* supplied outside [0, 1] was clamped.
C18_OverallIsMean ==
    TeamFactReturned =>
        2 * returned.overall_strength
            = returned.attacking_strength + returned.defensive_strength

StrengthFields ==
    {"attacking_strength", "defensive_strength", "overall_strength", "discipline_rating"}

C20_OnlyFiveBetTypes ==
    (call.op = "BetType.create" /\ returned # NotReturned) =>
        IF call.bet_type \in {"home_win", "away_win", "draw", "over", "under"}
        THEN /\ returned.kind = "BetType"
             /\ returned.bet_type = call.bet_type
             /\ returned.home_team = call.home_team
             /\ returned.away_team = call.away_team
        ELSE returned = ValueError

\* the type btts was rejected
C20_Witness ==
    /\ call.op = "BetType.create"
    /\ call.bet_type = "btts"
    /\ returned = ValueError

\* C21: a BetType created for over or under always carries a threshold (2.5
\* when none is given, the given value otherwise), and a BetType created for
\* home_win, away_win or draw carries no threshold.
C21_ThresholdOnlyForOverUnder ==
    (call.op = "BetType.create" /\ returned # NotReturned /\ returned # ValueError) =>
        IF call.bet_type \in {"over", "under"}
        THEN returned.threshold = (IF call.threshold = NoThreshold THEN 2500
                                   ELSE call.threshold)
        ELSE returned.threshold = NoThreshold

\* C22: BetRecommendationFact.create fails, producing no fact, whenever the
\* confidence or the decision is outside its enumeration, and never fails
\* inside it (decision in recommended, not_recommended, not_evaluated;
\* confidence in high, medium, low, unavailable).
C22_RejectsOutsideEnumerationOnly ==
    (call.op = "BetRecommendationFact.create" /\ returned # NotReturned) =>
        (returned = ValueError
            <=> \/ call.recommendation \notin {"recommended", "not_recommended", "not_evaluated"}
                \/ call.confidence \notin {"high", "medium", "low", "unavailable"})

----------------------------------------------------------------------------
(* Properties of the engine run on generated fixtures, checked under       *)
(* SpecFixture                                                             *)

FixtureRan == call.op = "fixture" /\ last_call.op = "run"

WarningKey == call.home_fact.team \o "_vs_" \o call.away_fact.team \o "_discipline_warning"

WarningText(fact) ==
    "ADVERTENCIA: " \o fact.team \o " tiene disciplina muy baja ("
        \o F2(fact.discipline_rating) \o ")."

\* C23: with the two TeamFacts and the MatchupFact of a fixture declared and
\* no BetType, run() stores a warning under "<home>_vs_<away>_discipline_warning"
\* iff the smaller discipline rating is below 0.52; the warning names a team
\* whose rating is that smaller one, and nothing is added to
\* get_recommendations() or get_rules_fired_summary().
C23_WarningIffLowDiscipline ==
    (FixtureRan /\ call.bets = <<>>) =>
        LET low == Min(call.home_fact.discipline_rating, call.away_fact.discipline_rating)
        IN  /\ WarningKey \in DOMAIN get_explanations(expert_system) <=> low < 520
            /\ WarningKey \in DOMAIN get_explanations(expert_system) =>
                  \E fact \in {call.home_fact, call.away_fact} :
                      /\ fact.discipline_rating = low
                      /\ get_explanations(expert_system)[WarningKey] = WarningText(fact)
            /\ get_recommendations(expert_system) = <<>>
            /\ get_rules_fired_summary(expert_system) = EmptyDict

\* the warning stored for a disciplined home team and an away team at 0.50
C23_Witness ==
    /\ FixtureRan
    /\ call.bets = <<>>
    /\ call.home_fact.discipline_rating = 760
    /\ call.away_fact.discipline_rating = 500
    /\ WarningKey \in DOMAIN get_explanations(expert_system)
    /\ get_explanations(expert_system)[WarningKey] = WarningText(call.away_fact)

----------------------------------------------------------------------------
(* Properties of the evidence conversion, checked under SpecEvidence *)

StrengthStateOk(strength, state) ==
    /\ strength < 400 => state = 0
    /\ (strength >= 400 /\ strength < 700) => state = 1
    /\ strength >= 700 => state = 2

GoalsStateOk(goals, state) ==
    /\ goals < 1500 => state = 0
    /\ (goals >= 1500 /\ goals < 2500) => state = 1
    /\ goals >= 2500 => state = 2

StyleStateOk(style, state) ==
    /\ style = "offensive" => state = 0
    /\ style = "balanced" => state = 1
    /\ style = "defensive" => state = 2
    /\ style \notin {"offensive", "balanced", "defensive"} => state = 1

\* C24: the discretization of the evidence is total and deterministic: a
\* strength is weak (0) below 0.4, medium (1) below 0.7, else strong (2); a
\* goal average is low (0) below 1.5, medium (1) below 2.5, else high (2); a
\* style is offensive 0, balanced 1, defensive 2 and every other string,
\* 'mixed' included, is balanced (1); every result is in {0, 1, 2}.
C24_DiscretizationTotal ==
    (call.op = "_convert_evidence" /\ returned # NotReturned) =>
        /\ DOMAIN returned = {"HomeStrength", "AwayStrength", "HomeStyle", "AwayStyle",
                              "HomeGoalsTendency", "AwayGoalsTendency"}
        /\ \A key \in DOMAIN returned : returned[key] \in {0, 1, 2}
        /\ StrengthStateOk(call.evidence.home_strength, returned.HomeStrength)
        /\ StrengthStateOk(call.evidence.away_strength, returned.AwayStrength)
        /\ StyleStateOk(call.evidence.home_style, returned.HomeStyle)
        /\ StyleStateOk(call.evidence.away_style, returned.AwayStyle)
        /\ GoalsStateOk(call.evidence.home_goals_tendency, returned.HomeGoalsTendency)
        /\ GoalsStateOk(call.evidence.away_goals_tendency, returned.AwayGoalsTendency)

\* evidence at the limits 0.4 and 2.5 with the style 'mixed' was converted
C24_Witness ==
    /\ call.op = "_convert_evidence"
    /\ returned # NotReturned
    /\ call.evidence.home_strength = 400
    /\ call.evidence.home_style = "mixed"
    /\ call.evidence.home_goals_tendency = 2500
    /\ returned.HomeStrength = 1
    /\ returned.HomeStyle = 1
    /\ returned.HomeGoalsTendency = 2

HasRecommendation(bet_type) ==
    \E i \in 1..Len(get_recommendations(expert_system)) :
        get_recommendations(expert_system)[i].bet_type = bet_type

\* C25: for a fixture with distinct teams, TeamFacts whose overall_strength
\* is the mean of the attacking and the defensive strength, and the
\* MatchupFact create_matchup_fact builds from them, get_recommendations()
\* after run() never holds both a home_win and an away_win recommendation.
C25_NeverHomeAndAwayWin ==
    FixtureRan => ~(HasRecommendation("home_win") /\ HasRecommendation("away_win"))

\* a run with both win bets declared that recommended the away win through
\* DominantAwayTeam
C25_Witness ==
    /\ FixtureRan
    /\ Len(call.bets) = 2
    /\ call.bets[1].bet_type = "home_win"
    /\ call.bets[2].bet_type = "away_win"
    /\ "DominantAwayTeam" \in DOMAIN get_rules_fired_summary(expert_system)
    /\ ~HasRecommendation("home_win")

\* C26: for one fixture with an over and an under BetType at the same
\* threshold and the MatchupFact create_matchup_fact builds,
\* get_recommendations() after run() never holds both an over and an under
\* recommendation.
C26_NeverOverAndUnder ==
    FixtureRan => ~(HasRecommendation("over") /\ HasRecommendation("under"))

\* C28: whenever AttackVsWeakDefenseOver fires, its recommendation has
\* confidence high and probability 0.75; the rule never emits a
\* medium-confidence recommendation.
C28_AttackVsWeakDefenseAlwaysHigh ==
    FixtureRan =>
        \A i \in 1..Len(get_recommendations(expert_system)) :
            LET rec == get_recommendations(expert_system)[i]
            IN  rec.rules_fired = <<"AttackVsWeakDefenseOver">> =>
                    /\ rec.bet_type = "over"
                    /\ rec.confidence = "high"
                    /\ rec.probability = 75000

\* AttackVsWeakDefenseOver fired for a home attack of 0.74 against an away
\* defense of 0.30
C28_Witness ==
    /\ FixtureRan
    /\ call.home_fact.attacking_strength = 740
    /\ call.away_fact.defensive_strength = 300
    /\ "AttackVsWeakDefenseOver" \in DOMAIN get_rules_fired_summary(expert_system)
    /\ \E i \in 1..Len(get_recommendations(expert_system)) :
           get_recommendations(expert_system)[i].rules_fired = <<"AttackVsWeakDefenseOver">>

ConfidenceRank(confidence) ==
    CASE confidence = "low"    -> 1
      [] confidence = "medium" -> 2
      [] confidence = "high"   -> 3
      [] OTHER                 -> 0

\* C27: when the selected rule recommendation and the Bayesian result of a
\* bet type disagree, the hybrid confidence is never higher than the
\* confidence of that rule recommendation (low < medium < high): a
\* low-confidence rule is not raised to medium by a disagreement.
C27_DisagreementNeverRaisesConfidence ==
    CombineDone =>
        \A bet_type \in DOMAIN hybrid_results :
            (RuleExists(bet_type) /\ BayesExists(bet_type) /\ ~Agree(bet_type)) =>
                ConfidenceRank(hybrid_results[bet_type].confidence)
                    <= ConfidenceRank(FirstOf(rules_recommendations, bet_type).confidence)

----------------------------------------------------------------------------
(* Properties of the conversational shell, checked under SpecShell *)

Message == call'.message

Analysed(home_team, away_team) ==
    /\ Len(results') = Len(results) + 1
    /\ results'[Len(results')].matchup = home_team \o " vs " \o away_team
    /\ context'.last_analysis = results'[Len(results')]

\* C29: when the follow-up 'home_away_selection' is pending for two
\* identified teams and the next message is the name of one of the two,
\* process_message runs the hybrid analysis with the named team as home and
\* the other as away, and the pending follow-up is cleared.
C29_NamedTeamBecomesHome ==
    [][\A k \in {1, 2} :
          (/\ context.follow_up_question = "home_away_selection"
           /\ Len(context.last_teams) = 2
           /\ call'.op = "process_message"
           /\ Message = <<context.last_teams[k]>>)
          => /\ Analysed(context.last_teams[k], context.last_teams[3 - k])
             /\ context'.follow_up_question = NoQuestion]_vars

\* C30: after a match-analysis request that names exactly one known team
\* (follow-up 'second_team' pending), a next message that names another known
\* team makes process_message run the hybrid analysis with the first team as
\* home and the newly named team as away.
C30_SecondTeamBecomesAway ==
    [][\A team \in available_teams :
          (/\ context.follow_up_question = "second_team"
           /\ context.current_intent = "match_analysis"
           /\ Len(context.last_teams) = 1
           /\ team # context.last_teams[1]
           /\ call'.op = "process_message"
           /\ Message = <<team>>)
          => Analysed(context.last_teams[1], team)]_vars

====
